---- MODULE Spec2Model ----
(***************************************************************************)
(* suggest-a-bot: the request pipeline (pipeline.py), its persistence      *)
(* operations (models.py) and the batch runner (run.py).                   *)
(*                                                                         *)
(* The store is the purchase_requests table (db), the request_events table *)
(* (events, kept in timestamp order) and the bot_runs row of each worker's *)
(* current run.  A worker is one bot process executing run_once or         *)
(* process_single.  Every database call may raise (sqlite3 errors such as  *)
(* "database is locked"); the number of such faults is bounded.            *)
(***************************************************************************)
EXTENDS Integers, Sequences, FiniteSets, TLC

\* ---------------------------------------------------------------- bounds
NumRequests == 2
MaxFaults == 1
MaxSingle == 1
MaxRuns == 2
MaxWords == 4
MaxBuilds == 2

\* config.py: BotConfig.max_requests_per_run default
DefaultMaxRequestsPerRun == 50

Requests == 1..NumRequests
Workers == {"w1", "w2"}
None == "None"
ErrText == "database is locked"

\* ------------------------------------------------------------ configuration
\* Pipeline.stages: the fixed stage order
Stages ==
  << "evidence_extraction", "catalog_lookup", "openlibrary_enrichment",
     "consortium_check", "input_refinement", "selection_guidance",
     "automatic_actions" >>

\* BotConfig() as config.py builds it.  OpenLibraryConfig declares no
\* allow_pii field, so the attribute is missing unless a caller sets it on
\* the object.
DefaultConfig ==
  [ catalog_lookup |-> TRUE,
    openlibrary_enrichment |-> TRUE,
    consortium_check |-> FALSE,
    input_refinement |-> FALSE,
    selection_guidance |-> FALSE,
    automatic_actions |-> FALSE,
    ol_enabled |-> TRUE,
    run_on_no_catalog_match |-> TRUE,
    run_on_partial_catalog_match |-> TRUE,
    run_on_exact_catalog_match |-> FALSE,
    allow_pii |-> "missing",
    decline_on_catalog_exact_match |-> FALSE,
    hold_on_consortium_match |-> FALSE,
    max_requests_per_run |-> DefaultMaxRequestsPerRun ]

\* The configurations explored: the default one and ones a deployment or a
\* caller can set up by assigning fields of the config objects.
Configs ==
  { DefaultConfig,
    [DefaultConfig EXCEPT !.max_requests_per_run = 1],
    [DefaultConfig EXCEPT !.allow_pii = "false"],
    [DefaultConfig EXCEPT !.allow_pii = "true",
                          !.run_on_exact_catalog_match = TRUE,
                          !.max_requests_per_run = 1],
    [DefaultConfig EXCEPT !.allow_pii = "false",
                          !.run_on_no_catalog_match = FALSE,
                          !.run_on_partial_catalog_match = FALSE],
    [DefaultConfig EXCEPT !.catalog_lookup = FALSE,
                          !.allow_pii = "false"],
    [DefaultConfig EXCEPT !.ol_enabled = FALSE,
                          !.consortium_check = TRUE,
                          !.input_refinement = TRUE,
                          !.selection_guidance = TRUE,
                          !.automatic_actions = TRUE,
                          !.decline_on_catalog_exact_match = TRUE,
                          !.hold_on_consortium_match = TRUE] }

\* PipelineStage.is_enabled of each stage class
is_enabled(stage, cfg) ==
  CASE stage = "evidence_extraction" -> TRUE
    [] stage = "catalog_lookup" -> cfg.catalog_lookup
    [] stage = "openlibrary_enrichment" ->
         cfg.openlibrary_enrichment /\ cfg.ol_enabled
    [] stage = "consortium_check" -> cfg.consortium_check
    [] stage = "input_refinement" -> cfg.input_refinement
    [] stage = "selection_guidance" -> cfg.selection_guidance
    [] stage = "automatic_actions" -> cfg.automatic_actions

\* ------------------------------------------------------------ request rows
\* What a patron's text contains, as far as the pipeline's control flow
\* depends on it: a valid ISBN, a title guess, an author guess.
Queries ==
  << [isbn |-> TRUE,  title |-> FALSE, author |-> FALSE],
     [isbn |-> FALSE, title |-> TRUE,  author |-> TRUE],
     [isbn |-> FALSE, title |-> FALSE, author |-> FALSE],
     [isbn |-> FALSE, title |-> TRUE,  author |-> FALSE] >>

\* The texts of the stored requests: consecutive requests carry consecutive
\* kinds of text, starting from kind k
QueryOf(k, r) == Queries[((k + r) % Len(Queries)) + 1]

\* evidence_packet_json IS NULL
NoPacket ==
  [ present |-> FALSE, isbn |-> FALSE, title_guess |-> FALSE,
    author_guess |-> FALSE, created_utc |-> 0 ]

\* A purchase_requests row as the submission flow inserts it
NewRow(q, ts) ==
  [ raw_query |-> q,
    created_ts |-> ts,
    bot_status |-> "pending",
    bot_processed_ts |-> 0,
    bot_error |-> None,
    evidence_packet_json |-> NoPacket,
    evidence_extracted_ts |-> 0,
    catalog_match |-> None,
    catalog_holdings_json |-> None,
    catalog_checked_ts |-> 0,
    consortium_available |-> None,
    consortium_checked_ts |-> 0,
    openlibrary_found |-> None,
    openlibrary_enrichment_json |-> None,
    openlibrary_checked_ts |-> 0 ]

\* EvidencePacketBuilder.build, reduced to the fields the stages branch on
\* and the created_utc stamp (datetime.now() at build time)
Build(q, now) ==
  [ present |-> TRUE, isbn |-> q.isbn, title_guess |-> q.title,
    author_guess |-> q.author, created_utc |-> now ]

\* ------------------------------------------------------------ BotDatabase
\* update_request: overwrite the named columns of one row
update_request(d, r, fields) == [d EXCEPT ![r] = fields @@ @]

mark_processing(d, r) == update_request(d, r, [bot_status |-> "processing"])

mark_completed(d, r, now) ==
  update_request(d, r, [bot_status |-> "completed", bot_processed_ts |-> now])

\* mark_error that records the status but not the exception text
mark_error_no_text(d, r, error, now) ==
  update_request(d, r, [bot_status |-> "error", bot_processed_ts |-> now])

mark_error(d, r, error, now) ==
  update_request(d, r,
    [bot_status |-> "error", bot_processed_ts |-> now, bot_error |-> error])

save_evidence_packet(d, r, packet, now) ==
  update_request(d, r,
    [evidence_packet_json |-> packet, evidence_extracted_ts |-> now])

save_catalog_result(d, r, match, hasHoldings, now) ==
  update_request(d, r,
    [ catalog_match |-> match,
      catalog_holdings_json |-> IF hasHoldings THEN "holdings" ELSE None,
      catalog_checked_ts |-> now ])

save_consortium_result(d, r, available, now) ==
  update_request(d, r,
    [ consortium_available |-> IF available THEN "1" ELSE "0",
      consortium_checked_ts |-> now ])

save_openlibrary_result(d, r, found, now) ==
  update_request(d, r,
    [ openlibrary_found |-> IF found THEN "1" ELSE "0",
      openlibrary_enrichment_json |-> "enrichment",
      openlibrary_checked_ts |-> now ])

\* Insertion sort of a set of request ids by created_ts ascending
RECURSIVE SortByCreated(_, _)
SortByCreated(d, S) ==
  IF S = {} THEN << >>
  ELSE LET m == CHOOSE x \in S : \A y \in S : d[x].created_ts <= d[y].created_ts
       IN  << m >> \o SortByCreated(d, S \ {m})

Take(s, n) == SubSeq(s, 1, IF Len(s) < n THEN Len(s) ELSE n)

\* get_pending_requests without its LIMIT clause
get_pending_requests_unlimited(d, limit) ==
  SortByCreated(d, {r \in Requests : d[r].bot_status = "pending"})

\* get_pending_requests: WHERE bot_status = 'pending' ORDER BY created_ts LIMIT ?
get_pending_requests(d, limit) ==
  Take(SortByCreated(d, {r \in Requests : d[r].bot_status = "pending"}), limit)


\* ------------------------------------------------------------------ state
VARIABLES
  config,   \* the BotConfig every worker was started with
  active,   \* the workers that are deployed
  db,       \* purchase_requests: request id -> row
  events,   \* request_events: request id -> event types in timestamp order
  proc,     \* worker -> its position and locals in run_once / process_single
  clock,    \* datetime.now(), advanced at each process_request call
  faults,   \* database calls that have raised so far
  singles,  \* process_single invocations so far
  runs,     \* run_once invocations so far
  call      \* the library function being exercised on its own, with its
            \* arguments and what it gave back

vars ==
  << config, active, db, events, proc, clock, faults, singles, runs, call >>

\* No library function is being exercised on its own
NoCall == [fn |-> "none"]

NoRow == NewRow([isbn |-> FALSE, title |-> FALSE, author |-> FALSE], 0)

\* BotRun as create_run inserts it
NewRun == [status |-> "running", processed |-> 0, errored |-> 0,
           error_message |-> None]

IdleProc ==
  [ pc |-> "idle", mode |-> "none",
    batch |-> << >>, idx |-> 0, processed |-> 0, errored |-> 0,
    rid |-> 0, row |-> NoRow, si |-> 0, log |-> << >>,
    exc |-> None, cause |-> None, outcome |-> "none", raisedAt |-> None,
    results |-> << >>,
    run |-> [NewRun EXCEPT !.status = "none"], rexc |-> None ]

InitStore(cfgs, kinds, f0) ==
  /\ config \in cfgs
  /\ \E k \in kinds :
       db = [r \in Requests |-> NewRow(QueryOf(k, r), NumRequests + 1 - r)]
  /\ events = [r \in Requests |-> << >>]
  /\ proc = [w \in Workers |-> IdleProc]
  /\ clock = 0
  /\ faults = f0
  /\ singles = 0
  /\ runs = 0
  /\ call = NoCall

\* One bot process
Init == InitStore(Configs, 1..Len(Queries), 0) /\ active = {"w1"}

\* Two bot processes running run_once against the same store while the
\* database answers every call, under the default configuration and under
\* one that lets the enrichment stage read allow_pii
ConcConfigs ==
  { DefaultConfig, [DefaultConfig EXCEPT !.allow_pii = "false"] }

InitConc == InitStore(ConcConfigs, {1}, MaxFaults) /\ active = Workers

\* ------------------------------------------------------------- the gate
\* _should_enrich with the idempotence marker consulted after the catalog
\* conditions instead of before them
should_enrich_marker_last(request, cfg) ==
  IF request.catalog_checked_ts = 0
    THEN [go |-> FALSE, reason |-> "no_catalog_check"]
  ELSE IF request.catalog_match = "none" /\ cfg.run_on_no_catalog_match
    THEN [go |-> TRUE, reason |-> "no_catalog_match"]
  ELSE IF request.catalog_match = "partial" /\ cfg.run_on_partial_catalog_match
    THEN [go |-> TRUE, reason |-> "partial_catalog_match"]
  ELSE IF request.catalog_match = "exact" /\ cfg.run_on_exact_catalog_match
    THEN [go |-> TRUE, reason |-> "exact_catalog_match"]
  ELSE IF request.openlibrary_checked_ts # 0
    THEN [go |-> FALSE, reason |-> "already_checked"]
  ELSE [go |-> FALSE, reason |-> "skipped"]

\* OpenLibraryEnrichmentStage._should_enrich
should_enrich(request, cfg) ==
  IF request.openlibrary_checked_ts # 0
    THEN [go |-> FALSE, reason |-> "already_checked"]
  ELSE IF request.catalog_checked_ts = 0
    THEN [go |-> FALSE, reason |-> "no_catalog_check"]
  ELSE IF request.catalog_match = "none"
    THEN IF cfg.run_on_no_catalog_match
           THEN [go |-> TRUE, reason |-> "no_catalog_match"]
           ELSE [go |-> FALSE, reason |-> "skip_no_match"]
  ELSE IF request.catalog_match = "partial"
    THEN IF cfg.run_on_partial_catalog_match
           THEN [go |-> TRUE, reason |-> "partial_catalog_match"]
           ELSE [go |-> FALSE, reason |-> "skip_partial_match"]
  ELSE IF request.catalog_match = "exact"
    THEN IF cfg.run_on_exact_catalog_match
           THEN [go |-> TRUE, reason |-> "exact_catalog_match"]
           ELSE [go |-> FALSE, reason |-> "skip_exact_match"]
  ELSE [go |-> FALSE, reason |-> "unknown_match_type"]

\* determine_match_type over what a catalog search can return for the
\* evidence: candidates need a search criterion, an ISBN intersection needs
\* an evidence ISBN
Matches(evidence) ==
  {"none"}
    \cup (IF evidence.isbn \/ evidence.title_guess THEN {"partial"} ELSE {})
    \cup (IF evidence.isbn THEN {"exact"} ELSE {})

\* --------------------------------------------------------- stage outcomes
\* What one call of a stage's process() did: the store it leaves, the events
\* it appended, how it ended ("ok" / "failed" = StageResult.success, "raised"
\* = an exception left process()), the branch taken, the database faults it
\* met and the secondary-source queries it issued.
Out(d, ev, result, note, nf, q) ==
  [db |-> d, ev |-> ev, result |-> result, note |-> note, nf |-> nf, q |-> q]

\* The except clause of CatalogLookupStage / OpenLibraryEnrichmentStage:
\* log a failure event (which may itself raise) and return success=False
CaughtInStage(d, evType, nf, q) ==
  { Out(d, << evType >>, "failed", "error", nf, q),
    Out(d, << >>, "raised", "error", nf + 1, q) }

\* EvidenceExtractionStage.process
EvidenceOutcomes(request, r, d, now) ==
  LET saved == save_evidence_packet(d, r, Build(request.raw_query, now), now)
  IN  { Out(saved, << "bot_evidence_extracted" >>, "ok", "extracted", 0, 0),
        Out(d, << >>, "failed", "error", 1, 0),
        Out(saved, << >>, "failed", "error", 1, 0) }

\* A stage that keeps the holdings summary and never stores the artifact
SaveCandidateSets_skipped(d, r) == d

\* "Also save the full candidate sets artifact":
\* update_request(catalog_holdings_json=candidate_sets.to_json())
SaveCandidateSets(d, r) ==
  update_request(d, r, [catalog_holdings_json |-> "candidate_sets"])

\* CatalogLookupStage.process
CatalogOutcomes(request, r, d, now) ==
  LET evidence == request.evidence_packet_json
      ET == "bot_catalog_checked"
  IN  IF ~evidence.present
        THEN { Out(d, << >>, "ok", "no_evidence_packet", 0, 0) }
      ELSE IF ~evidence.isbn /\ ~evidence.title_guess
        THEN { Out(d, << ET >>, "ok", "no_search_criteria", 0, 0) }
               \cup CaughtInStage(d, ET, 1, 0)
      ELSE UNION { LET saved == save_catalog_result(d, r, m, m # "none", now)
                       full == SaveCandidateSets(saved, r)
                   IN  { Out(full, << ET >>, "ok", "searched", 0, 0) }
                         \cup CaughtInStage(d, ET, 1, 0)
                         \cup CaughtInStage(saved, ET, 1, 0)
                         \cup CaughtInStage(full, ET, 1, 0)
                 : m \in Matches(evidence) }

\* scrub_pii applied to the three query values: a canonical ISBN is a
\* 13-digit run and is therefore replaced by the marker; presence of each
\* value is what the stage branches on
Scrubbed(evidence) ==
  [ isbn |-> evidence.isbn, title |-> evidence.title_guess,
    author |-> evidence.author_guess, isbn_redacted |-> evidence.isbn ]

Unscrubbed(evidence) ==
  [ isbn |-> evidence.isbn, title |-> evidence.title_guess,
    author |-> evidence.author_guess, isbn_redacted |-> FALSE ]

\* OpenLibraryEnrichmentStage.process
OpenLibraryOutcomes(request, r, d, now, cfg) ==
  LET gate == should_enrich(request, cfg)
      evidence == request.evidence_packet_json
      ET == "bot_openlibrary_checked"
  IN  IF ~gate.go
        THEN { Out(d, << >>, "ok", gate.reason, 0, 0) }
      ELSE IF ~evidence.present
        THEN { Out(d, << >>, "ok", "no_evidence_packet", 0, 0) }
      ELSE IF cfg.allow_pii = "missing"
        THEN CaughtInStage(d, ET, 0, 0)
      ELSE LET crit == IF cfg.allow_pii = "false" THEN Scrubbed(evidence)
                       ELSE Unscrubbed(evidence)
           IN  IF ~crit.isbn /\ ~crit.title
                 THEN { Out(d, << ET >>, "ok", "no_search_criteria", 0, 0) }
                        \cup CaughtInStage(d, ET, 1, 0)
               ELSE UNION { LET saved == save_openlibrary_result(d, r, found, now)
                            IN  { Out(saved, << ET >>, "ok", "queried", 0, 1) }
                                  \cup CaughtInStage(d, ET, 1, 1)
                                  \cup CaughtInStage(saved, ET, 1, 1)
                          : found \in BOOLEAN }

\* ConsortiumCheckStage.process (stub: nothing found, no try/except)
ConsortiumOutcomes(request, r, d, now) ==
  LET saved == save_consortium_result(d, r, FALSE, now)
  IN  { Out(saved, << "bot_consortium_checked" >>, "ok", "checked", 0, 0),
        Out(d, << >>, "raised", "error", 1, 0),
        Out(saved, << >>, "raised", "error", 1, 0) }

\* InputRefinementStage.process (stub)
RefinementOutcomes(request, r, d, now) ==
  { Out(d, << "bot_refined" >>, "ok", "refined", 0, 0),
    Out(d, << >>, "raised", "error", 1, 0) }

\* SelectionGuidanceStage.process (stub)
GuidanceOutcomes(request, r, d, now) ==
  { Out(d, << "bot_assessed" >>, "ok", "assessed", 0, 0),
    Out(d, << >>, "raised", "error", 1, 0) }

\* AutomaticActionsStage.process
AutoActionsOutcomes(request, r, d, now, cfg) ==
  LET decline == cfg.decline_on_catalog_exact_match
                   /\ request.catalog_match = "exact"
      hold == cfg.hold_on_consortium_match
                /\ request.consortium_available = "1"
  IN  IF decline \/ hold
        THEN { Out(d, << "bot_action_taken" >>, "ok", "actions", 0, 0),
               Out(d, << >>, "raised", "error", 1, 0) }
        ELSE { Out(d, << >>, "ok", "none", 0, 0) }


\* ----------------------------------------------------------- process_request
\* process_request raised: in run_once the exception reaches the batch
\* loop's except clause, in process_single it reaches the caller
Raise(p, at) ==
  [p EXCEPT !.outcome = "raised", !.raisedAt = at,
            !.pc = IF p.mode = "run_once" THEN "run_failed" ELSE "idle",
            !.rexc = IF p.mode = "run_once" THEN "process_request" ELSE @]

\* A stage loop that gives up at the first stage reporting failure
AfterStage_abort(success) == IF success THEN "continue" ELSE "abort"

\* process_request: "if not result.success: logger.warning(...)" and go on
AfterStage(success) == "continue"

\* A process_request whose try block has no except clause
OnTryException_propagate == "propagate"

\* process_request: the try block is followed by "except Exception"
OnTryException == "except"

\* An exception raised inside the try block of process_request
Escape(p, text, cause) ==
  IF OnTryException = "except"
    THEN [p EXCEPT !.pc = "except", !.exc = text, !.cause = cause]
    ELSE Raise([p EXCEPT !.exc = text, !.cause = cause], "try")

\* process_request, lines 690-692: mark_processing and the bot_started
\* event, both outside the try block
Begin(w) ==
  LET p == proc[w]
      r == p.rid
      fresh == [p EXCEPT !.si = 1, !.log = << >>, !.exc = None,
                         !.cause = None, !.outcome = "none",
                         !.raisedAt = None]
  IN  /\ w \in active
      /\ p.pc = "begin"
      /\ clock' = clock + 1
      /\ \/ /\ db' = mark_processing(db, r)
            /\ events' = [events EXCEPT ![r] = Append(@, "bot_started")]
            /\ proc' = [proc EXCEPT ![w] = [fresh EXCEPT !.pc = "stage"]]
            /\ UNCHANGED faults
         \/ /\ faults < MaxFaults
            /\ faults' = faults + 1
            /\ db' \in {db, mark_processing(db, r)}
            /\ proc' = [proc EXCEPT ![w] = Raise([fresh EXCEPT !.exc = ErrText], "begin")]
            /\ UNCHANGED events
      /\ UNCHANGED << call, config, active, singles, runs >>

\* A stage loop that runs every stage whatever the configuration says
Invoked_always(stage, cfg) == TRUE

\* The stage loop's test: "if not stage.is_enabled(): continue"
Invoked(stage, cfg) == is_enabled(stage, cfg)

\* A stage loop that keeps the row it was given for every stage
Refreshed_stale(held, stored) == held

\* "request = self.db.get_request(request.request_id) or request": the row
\* exists, so the next stage is handed the stored row
Refreshed(held, stored) == stored

\* One iteration of the stage loop for an enabled stage: stage.process and
\* the refresh of the request row (lines 700-708)
StageStep(w, name, outs) ==
  LET p == proc[w]
      r == p.rid
  IN  /\ w \in active
      /\ p.pc = "stage" /\ p.si <= Len(Stages) /\ Stages[p.si] = name
      /\ Invoked(name, config)
      /\ \E o \in outs : \E refreshed \in BOOLEAN :
           LET nf == o.nf + (IF refreshed THEN 0 ELSE 1)
               entry == [stage |-> name, result |-> o.result, note |-> o.note,
                         nevents |-> Len(o.ev), q |-> o.q, seen |-> p.row]
               logged == [p EXCEPT !.log = Append(@, entry)]
           IN  /\ faults + nf <= MaxFaults
               /\ (o.result = "raised") => refreshed
               /\ db' = o.db
               /\ events' = [events EXCEPT ![r] = @ \o o.ev]
               /\ faults' = faults + nf
               /\ proc' = [proc EXCEPT ![w] =
                    IF o.result = "raised" \/ ~refreshed
                         \/ AfterStage(o.result = "ok") # "continue"
                      THEN Escape(logged, ErrText,
                                  IF o.result = "raised" THEN "stage_raised"
                                  ELSE IF ~refreshed THEN "refresh"
                                  ELSE "stage_failed")
                      ELSE [logged EXCEPT !.row = Refreshed(p.row, o.db[r]),
                                        !.si = @ + 1]]
      /\ UNCHANGED << call, config, active, clock, singles, runs >>

EvidenceExtractionStage(w) ==
  StageStep(w, "evidence_extraction",
            EvidenceOutcomes(proc[w].row, proc[w].rid, db, clock))

CatalogLookupStage(w) ==
  StageStep(w, "catalog_lookup",
            CatalogOutcomes(proc[w].row, proc[w].rid, db, clock))

OpenLibraryEnrichmentStage(w) ==
  StageStep(w, "openlibrary_enrichment",
            OpenLibraryOutcomes(proc[w].row, proc[w].rid, db, clock, config))

ConsortiumCheckStage(w) ==
  StageStep(w, "consortium_check",
            ConsortiumOutcomes(proc[w].row, proc[w].rid, db, clock))

InputRefinementStage(w) ==
  StageStep(w, "input_refinement",
            RefinementOutcomes(proc[w].row, proc[w].rid, db, clock))

SelectionGuidanceStage(w) ==
  StageStep(w, "selection_guidance",
            GuidanceOutcomes(proc[w].row, proc[w].rid, db, clock))

AutomaticActionsStage(w) ==
  StageStep(w, "automatic_actions",
            AutoActionsOutcomes(proc[w].row, proc[w].rid, db, clock, config))

\* The stage loop's "if not stage.is_enabled(): continue"
SkipDisabledStage(w) ==
  LET p == proc[w]
  IN  /\ w \in active
      /\ p.pc = "stage" /\ p.si <= Len(Stages)
      /\ ~Invoked(Stages[p.si], config)
      /\ proc' = [proc EXCEPT ![w].si = @ + 1]
      /\ UNCHANGED << call, config, active, db, events, clock, faults, singles, runs >>

\* process_request, lines 710-715: mark_completed and the bot_completed
\* event, inside the try block
Complete(w) ==
  LET p == proc[w]
      r == p.rid
  IN  /\ w \in active
      /\ p.pc = "stage" /\ p.si = Len(Stages) + 1
      /\ \/ /\ db' = mark_completed(db, r, clock)
            /\ events' = [events EXCEPT ![r] = Append(@, "bot_completed")]
            /\ proc' = [proc EXCEPT ![w] =
                          [p EXCEPT !.pc = "returned", !.outcome = "true"]]
            /\ UNCHANGED faults
         \/ /\ faults < MaxFaults
            /\ faults' = faults + 1
            /\ db' \in {db, mark_completed(db, r, clock)}
            /\ proc' = [proc EXCEPT ![w] = Escape(p, ErrText, "complete")]
            /\ UNCHANGED events
      /\ UNCHANGED << call, config, active, clock, singles, runs >>

\* process_request, lines 717-725: the except clause
Except(w) ==
  LET p == proc[w]
      r == p.rid
  IN  /\ w \in active
      /\ p.pc = "except"
      /\ \/ /\ db' = mark_error(db, r, p.exc, clock)
            /\ events' = [events EXCEPT ![r] = Append(@, "bot_error")]
            /\ proc' = [proc EXCEPT ![w] =
                          [p EXCEPT !.pc = "returned", !.outcome = "false"]]
            /\ UNCHANGED faults
         \/ /\ faults < MaxFaults
            /\ faults' = faults + 1
            /\ db' \in {db, mark_error(db, r, p.exc, clock)}
            /\ proc' = [proc EXCEPT ![w] = Raise(p, "handler")]
            /\ UNCHANGED events
      /\ UNCHANGED << call, config, active, clock, singles, runs >>

\* ------------------------------------------------------------------ run_once
\* run_once, lines 43-51: create_run, before the try block
StartRunOnce(w) ==
  /\ w \in active
  /\ proc[w].pc = "idle"
  /\ runs < MaxRuns
  /\ runs' = runs + 1
  /\ \/ /\ proc' = [proc EXCEPT ![w] =
                      [IdleProc EXCEPT !.pc = "fetch", !.mode = "run_once",
                                       !.run = NewRun]]
        /\ UNCHANGED faults
     \/ /\ faults < MaxFaults
        /\ faults' = faults + 1
        /\ proc' = [proc EXCEPT ![w] = IdleProc]
  /\ UNCHANGED << call, config, active, db, events, clock, singles >>

\* run_once, line 55: the batch is the rows as they are read now
Fetch(w) ==
  LET p == proc[w]
      ids == get_pending_requests(db, config.max_requests_per_run)
  IN  /\ w \in active
      /\ p.pc = "fetch"
      /\ \/ /\ proc' = [proc EXCEPT ![w] =
                  [p EXCEPT !.pc = "loop", !.idx = 1,
                            !.batch = [i \in 1..Len(ids) |->
                                         [id |-> ids[i], row |-> db[ids[i]]]]]]
            /\ UNCHANGED faults
         \/ /\ faults < MaxFaults
            /\ faults' = faults + 1
            /\ proc' = [proc EXCEPT ![w] =
                  [p EXCEPT !.pc = "run_failed", !.rexc = "get_pending_requests"]]
      /\ UNCHANGED << call, config, active, db, events, clock, singles, runs >>

\* run_once, line 58: the for statement
Loop(w) ==
  LET p == proc[w]
  IN  /\ w \in active
      /\ p.pc = "loop"
      /\ proc' = [proc EXCEPT ![w] =
            IF p.idx <= Len(p.batch)
              THEN [p EXCEPT !.pc = "begin", !.rid = p.batch[p.idx].id,
                             !.row = p.batch[p.idx].row]
              ELSE [p EXCEPT !.pc = "complete_run"]]
      /\ UNCHANGED << call, config, active, db, events, clock, faults, singles, runs >>

\* run_once, lines 59-63: count the result of process_request
Tally(w) ==
  LET p == proc[w]
  IN  /\ w \in active
      /\ p.pc = "returned" /\ p.mode = "run_once"
      /\ proc' = [proc EXCEPT ![w] =
            [p EXCEPT !.pc = "loop", !.idx = @ + 1,
                      !.results = Append(@, p.outcome),
                      !.processed = IF p.outcome = "true" THEN @ + 1 ELSE @,
                      !.errored = IF p.outcome = "true" THEN @ ELSE @ + 1]]
      /\ UNCHANGED << call, config, active, db, events, clock, faults, singles, runs >>

\* BotDatabase.complete_run
complete_run(run, processed, errored, status, error_message) ==
  [run EXCEPT !.status = status, !.processed = processed,
              !.errored = errored, !.error_message = error_message]

\* run_once, line 66: complete_run(COMPLETED), inside the try block
CompleteRun(w) ==
  LET p == proc[w]
  IN  /\ w \in active
      /\ p.pc = "complete_run"
      /\ \/ /\ proc' = [proc EXCEPT ![w] =
                  [p EXCEPT !.pc = "idle",
                            !.run = complete_run(p.run, p.processed, p.errored,
                                                 "completed", None)]]
            /\ UNCHANGED faults
         \/ /\ faults < MaxFaults
            /\ faults' = faults + 1
            /\ proc' = [proc EXCEPT ![w] =
                  [p EXCEPT !.pc = "run_failed", !.rexc = "complete_run"]]
      /\ UNCHANGED << call, config, active, db, events, clock, singles, runs >>

\* run_once, lines 69-72: the except clause: complete_run(FAILED), re-raise
RunFailed(w) ==
  LET p == proc[w]
  IN  /\ w \in active
      /\ p.pc = "run_failed"
      /\ \/ /\ proc' = [proc EXCEPT ![w] =
                  [p EXCEPT !.pc = "idle",
                            !.run = complete_run(p.run, p.processed, p.errored,
                                                 "failed", ErrText)]]
            /\ UNCHANGED faults
         \/ /\ faults < MaxFaults
            /\ faults' = faults + 1
            /\ proc' = [proc EXCEPT ![w] = [p EXCEPT !.pc = "idle"]]
      /\ UNCHANGED << call, config, active, db, events, clock, singles, runs >>

\* ------------------------------------------------------------ process_single
\* process_single, lines 79-88: read the row by id, whatever its bot_status
StartSingle(w, r) ==
  /\ w \in active
  /\ proc[w].pc = "idle"
  /\ singles < MaxSingle
  /\ singles' = singles + 1
  /\ \/ /\ proc' = [proc EXCEPT ![w] =
                      [IdleProc EXCEPT !.pc = "begin", !.mode = "single",
                                       !.rid = r, !.row = db[r]]]
        /\ UNCHANGED faults
     \/ /\ faults < MaxFaults
        /\ faults' = faults + 1
        /\ proc' = [proc EXCEPT ![w] = IdleProc]
  /\ UNCHANGED << call, config, active, db, events, clock, runs >>

\* process_single, line 88: hand the result of process_request to the caller
SingleReturn(w) ==
  LET p == proc[w]
  IN  /\ w \in active
      /\ p.pc = "returned" /\ p.mode = "single"
      /\ proc' = [proc EXCEPT ![w].pc = "idle"]
      /\ UNCHANGED << call, config, active, db, events, clock, faults, singles, runs >>

\* ---------------------------------------------------------- specification
Next ==
  \E w \in Workers :
    \/ StartRunOnce(w)
    \/ Fetch(w)
    \/ Loop(w)
    \/ Tally(w)
    \/ CompleteRun(w)
    \/ RunFailed(w)
    \/ \E r \in Requests : StartSingle(w, r)
    \/ SingleReturn(w)
    \/ Begin(w)
    \/ EvidenceExtractionStage(w)
    \/ CatalogLookupStage(w)
    \/ OpenLibraryEnrichmentStage(w)
    \/ ConsortiumCheckStage(w)
    \/ InputRefinementStage(w)
    \/ SelectionGuidanceStage(w)
    \/ AutomaticActionsStage(w)
    \/ SkipDisabledStage(w)
    \/ Complete(w)
    \/ Except(w)

Spec == Init /\ [][Next]_vars

NextConc ==
  \E w \in Workers :
    \/ StartRunOnce(w)
    \/ Fetch(w)
    \/ Loop(w)
    \/ Tally(w)
    \/ CompleteRun(w)
    \/ Begin(w)
    \/ EvidenceExtractionStage(w)
    \/ CatalogLookupStage(w)
    \/ OpenLibraryEnrichmentStage(w)
    \/ SkipDisabledStage(w)
    \/ Complete(w)

SpecConc == InitConc /\ [][NextConc]_vars

\* ---------------------------------------------------------------- run_daemon
\* run_daemon, lines 113-120: "while True": each cycle calls run_once
\* (create_run, before the try block), logs whatever it raises, sleeps and
\* goes round again; the number of cycles is not limited
DaemonCycle(w) ==
  /\ w \in active
  /\ proc[w].pc = "idle"
  /\ \/ /\ proc' = [proc EXCEPT ![w] =
                      [IdleProc EXCEPT !.pc = "fetch", !.mode = "run_once",
                                       !.run = NewRun]]
        /\ UNCHANGED faults
     \/ /\ faults < MaxFaults
        /\ faults' = faults + 1
        /\ proc' = [proc EXCEPT ![w] = IdleProc]
  /\ UNCHANGED << call, config, active, db, events, clock, singles, runs >>

NextDaemon ==
  \E w \in Workers :
    \/ DaemonCycle(w)
    \/ Fetch(w)
    \/ Loop(w)
    \/ Tally(w)
    \/ CompleteRun(w)
    \/ RunFailed(w)
    \/ Begin(w)
    \/ EvidenceExtractionStage(w)
    \/ CatalogLookupStage(w)
    \/ OpenLibraryEnrichmentStage(w)
    \/ ConsortiumCheckStage(w)
    \/ InputRefinementStage(w)
    \/ SelectionGuidanceStage(w)
    \/ AutomaticActionsStage(w)
    \/ SkipDisabledStage(w)
    \/ Complete(w)
    \/ Except(w)

\* The daemon is one process that never stops: each of its steps is taken
\* sooner or later (the asyncio loop runs the coroutine to its next await
\* and the sleep ends)
SpecDaemon == Init /\ [][NextDaemon]_vars /\ WF_vars(NextDaemon)

\* ------------------------------------------------- library functions
\* The variables of the pipeline, which stay as they are while a library
\* function is exercised on its own
pipelineVars ==
  << config, active, db, events, proc, clock, faults, singles, runs >>

\* No bot process is deployed
Standby ==
  /\ config = DefaultConfig
  /\ active = {}
  /\ db = [r \in Requests |-> NoRow]
  /\ events = [r \in Requests |-> << >>]
  /\ proc = [w \in Workers |-> IdleProc]
  /\ clock = 0
  /\ faults = 0
  /\ singles = 0
  /\ runs = 0

\* ---------------------------------------------------------- identifiers.py
\* Text is a sequence of characters.  "sup2" is the superscript two: a
\* character for which str.isdigit() is true and int() raises ValueError.
Digits == {"0", "1", "2", "3", "4", "5", "6", "7", "8", "9"}

Alphabet == Digits \cup {"X", "x", "-", " ", "a", "sup2"}

\* str.isdigit() of one character
isdigit(c) == c \in Digits \cup {"sup2"}

\* int(c) of a decimal digit
DigitValue(c) ==
  CASE c = "0" -> 0 [] c = "1" -> 1 [] c = "2" -> 2 [] c = "3" -> 3
    [] c = "4" -> 4 [] c = "5" -> 5 [] c = "6" -> 6 [] c = "7" -> 7
    [] c = "8" -> 8 [] c = "9" -> 9

\* str(n) of a number below ten
DigitChar(n) == CHOOSE c \in Digits : DigitValue(c) = n

\* str.upper() of one character
Upper(c) == CASE c = "x" -> "X" [] c = "a" -> "A" [] OTHER -> c

\* _strip_isbn: drop hyphens and spaces, upper-case
strip_isbn(isbn) ==
  LET kept == SelectSeq(isbn, LAMBDA c : c \notin {"-", " "})
  IN  [i \in 1..Len(kept) |-> Upper(kept[i])]

\* validate_isbn10: the loop over enumerate(isbn), i counted from 0
RECURSIVE Isbn10Loop(_, _, _)
Isbn10Loop(isbn, i, total) ==
  IF i = Len(isbn)
    THEN IF total % 11 = 0 THEN "True" ELSE "False"
  ELSE LET char == isbn[i + 1]
       IN  IF char = "X"
             THEN IF i # 9 THEN "False"
                  ELSE Isbn10Loop(isbn, i + 1, total + 10 * (10 - i))
           ELSE IF isdigit(char)
             THEN IF char \in Digits
                    THEN Isbn10Loop(isbn, i + 1,
                                    total + DigitValue(char) * (10 - i))
                    ELSE "ValueError"
           ELSE "False"

\* validate_isbn10: "True", "False", or the exception that leaves it
validate_isbn10(isbn) ==
  LET s == strip_isbn(isbn)
  IN  IF Len(s) # 10 THEN "False" ELSE Isbn10Loop(s, 0, 0)

\* The weighted sum of validate_isbn13 / isbn10_to_isbn13 over the first n
\* characters: weights 1 and 3 alternating; "ValueError" if int() raises
RECURSIVE WeightedSum(_, _)
WeightedSum(isbn, n) ==
  IF n = 0 THEN [raised |-> FALSE, total |-> 0]
  ELSE LET before == WeightedSum(isbn, n - 1)
           char == isbn[n]
           weight == IF (n - 1) % 2 = 0 THEN 1 ELSE 3
       IN  IF before.raised \/ char \notin Digits
             THEN [raised |-> TRUE, total |-> 0]
             ELSE [raised |-> FALSE,
                   total |-> before.total + DigitValue(char) * weight]

\* validate_isbn13
validate_isbn13(isbn) ==
  LET s == strip_isbn(isbn)
      sum == WeightedSum(s, Len(s))
  IN  IF Len(s) # 13 THEN "False"
      ELSE IF \E i \in 1..Len(s) : ~isdigit(s[i]) THEN "False"
      ELSE IF sum.raised THEN "ValueError"
      ELSE IF sum.total % 10 = 0 THEN "True" ELSE "False"

\* What a function returning "str | None" gave back
Returned(value) == [kind |-> "value", value |-> value]
ReturnedNone == [kind |-> "none", value |-> << >>]
RaisedValueError == [kind |-> "ValueError", value |-> << >>]

\* isbn10_to_isbn13
isbn10_to_isbn13(isbn10) ==
  LET s == strip_isbn(isbn10)
      valid == validate_isbn10(s)
      base == << "9", "7", "8" >> \o SubSeq(s, 1, 9)
      sum == WeightedSum(base, Len(base))
      check == (10 - (sum.total % 10)) % 10
  IN  IF Len(s) # 10 THEN ReturnedNone
      ELSE IF valid = "ValueError" THEN RaisedValueError
      ELSE IF valid = "False" THEN ReturnedNone
      ELSE IF sum.raised THEN RaisedValueError
      ELSE Returned(Append(base, DigitChar(check)))

\* canonicalize_isbn
canonicalize_isbn(isbn) ==
  LET s == strip_isbn(isbn)
  IN  IF Len(s) = 10
        THEN LET valid == validate_isbn10(s)
             IN  IF valid = "ValueError" THEN RaisedValueError
                 ELSE IF valid = "True" THEN isbn10_to_isbn13(s)
                 ELSE ReturnedNone
      ELSE IF Len(s) = 13
        THEN LET valid == validate_isbn13(s)
             IN  IF valid = "ValueError" THEN RaisedValueError
                 ELSE IF valid = "True" THEN Returned(s)
                 ELSE ReturnedNone
      ELSE ReturnedNone

\* ISBN texts used as inputs: 0306406152 and 080442957X with their ISBN-13
\* forms, two 979 ISBN-13s, and a hyphenated ISBN-10
SampleIsbn ==
  [ a10 |-> << "0", "3", "0", "6", "4", "0", "6", "1", "5", "2" >>,
    x10 |-> << "0", "8", "0", "4", "4", "2", "9", "5", "7", "X" >>,
    a13 |-> << "9", "7", "8", "0", "3", "0", "6", "4", "0", "6", "1", "5", "7" >>,
    b13 |-> << "9", "7", "9", "1", "0", "9", "0", "6", "3", "6", "0", "7", "1" >>,
    x13 |-> << "9", "7", "8", "0", "8", "0", "4", "4", "2", "9", "5", "7", "3" >>,
    c13 |-> << "9", "7", "9", "8", "8", "8", "6", "4", "5", "1", "7", "4", "0" >>,
    a10h |-> << "0", "-", "3", "0", "6", "-", "4", "0", "6", "1", "5", "-", "2" >> ]

\* Checksum-valid ISBNs in their two lengths, and texts around them: one
\* character replaced, or one character inserted
IsbnInputs ==
  LET IsbnBases == {SampleIsbn.a10, SampleIsbn.x10, SampleIsbn.a13, SampleIsbn.b13}
      Insert(s, i, c) == SubSeq(s, 1, i) \o << c >> \o SubSeq(s, i + 1, Len(s))
  IN
  IsbnBases
    \cup { [b EXCEPT ![i] = c] :
             b \in IsbnBases, i \in {1, 9, 10}, c \in Alphabet }
    \cup { [b EXCEPT ![Len(b)] = c] : b \in IsbnBases, c \in Alphabet }
    \cup { Insert(b, i, c) :
             b \in IsbnBases, i \in {1, 4, 10}, c \in {"-", " ", "0", "x"} }

\* canonicalize_isbn called on a text
InitIsbn ==
  /\ Standby
  /\ \E isbn \in IsbnInputs :
       call = [fn |-> "canonicalize_isbn", arg |-> isbn, done |-> FALSE,
               result |-> ReturnedNone]

CanonicalizeIsbn ==
  /\ call.fn = "canonicalize_isbn" /\ ~call.done
  /\ call' = [call EXCEPT !.done = TRUE, !.result = canonicalize_isbn(call.arg)]
  /\ UNCHANGED pipelineVars

SpecIsbn == InitIsbn /\ [][CanonicalizeIsbn]_vars

\* -------------------------------------------------------------- catalog.py
\* evidence.identifiers.isbn: up to four ISBNs, in the order extracted
EvidenceIsbnLists ==
  { << >>, << SampleIsbn.a13 >>, << SampleIsbn.b13, SampleIsbn.a13 >>,
    << SampleIsbn.b13, SampleIsbn.x13, SampleIsbn.a13 >>,
    << SampleIsbn.b13, SampleIsbn.x13, SampleIsbn.c13, SampleIsbn.a13 >> }

\* What the Sierra client does on one tier's search: the search call
\* raises, or it returns entries (response.get("entries", []), bib records
\* reduced to bib.get("isbn", [])) and the availability call made for each
\* entry raises or answers
SierraAnswers ==
  LET Bibs ==
        { [isbn |-> << >>], [isbn |-> << SampleIsbn.a13 >>], [isbn |-> << SampleIsbn.a10 >>],
          [isbn |-> << SampleIsbn.a10h >>],
          [isbn |-> << SampleIsbn.x13, SampleIsbn.c13 >>] }
      EntryLists ==
        { << >> } \cup { << b >> : b \in Bibs }
          \cup { << [isbn |-> << >>], b >> : b \in Bibs }
  IN
  { [raises |-> "search", entries |-> << >>] }
    \cup { [raises |-> "none", entries |-> e] : e \in EntryLists }
    \cup { [raises |-> "availability", entries |-> e] :
             e \in EntryLists \ { << >> } }

\* The client calls one tier's search issues
ClientCalls(method, answer) ==
  << method >>
    \o (IF answer.raises = "search" \/ answer.entries = << >>
          THEN << >> ELSE << "get_item_availability" >>)

\* A tier search that treats an exception like any other result of the
\* catalog client instead of catching it
OnTierException_propagate == "propagate"

\* _search_by_isbn / _search_by_title_author / _search_by_title: the body is
\* a try block followed by "except Exception"
OnTierException == "capture"

\* SearchResult of one tier: sierra_bib_to_candidate for every entry, or
\* the except clause's SearchResult(query_string, error=str(e))
TierResult(tier, query, answer) ==
  IF answer.raises = "none"
    THEN [tier |-> tier, query |-> query, candidates |-> answer.entries,
          error |-> FALSE]
    ELSE [tier |-> tier, query |-> query, candidates |-> << >>,
          error |-> TRUE]

\* CandidateSets.get_all_candidates
RECURSIVE get_all_candidates(_)
get_all_candidates(results) ==
  IF results = << >> THEN << >>
  ELSE results[1].candidates \o get_all_candidates(Tail(results))

\* CandidateSets.has_candidates
has_candidates(results) == Len(get_all_candidates(results)) > 0

\* A search that goes on to the text tiers whatever the ISBN tier found
NeedTextTier_always(results) == TRUE

\* CatalogSearcher.search: the condition of "Tier 2"
NeedTextTier(results) ==
  results = << >> \/ ~(\E i \in DOMAIN results : results[i].candidates # << >>)

\* determine_match_type
determine_match_type(results, evidence) ==
  LET search_isbns == {evidence.isbn[i] : i \in DOMAIN evidence.isbn}
      all == get_all_candidates(results)
  IN  IF ~has_candidates(results) THEN "none"
      ELSE IF \E k \in DOMAIN all :
                search_isbns \cap {all[k].isbn[j] : j \in DOMAIN all[k].isbn} # {}
        THEN "exact"
      ELSE "partial"

\* CatalogSearcher.search called on an evidence packet, followed by
\* determine_match_type on what it returned
InitSearch ==
  /\ Standby
  /\ \E isbns \in EvidenceIsbnLists : \E title, author \in BOOLEAN :
       call = [fn |-> "search",
               evidence |-> [isbn |-> isbns, title_guess |-> title,
                             author_guess |-> author],
               pc |-> "isbn", i |-> 1, results |-> << >>, calls |-> << >>,
               match |-> "unset"]

\* One tier's search with what the client answered
TierStep(tier, query, method, answer, nextpc, nexti) ==
  IF answer.raises # "none" /\ OnTierException # "capture"
    THEN [call EXCEPT !.pc = "raised",
                      !.calls = @ \o ClientCalls(method, answer)]
    ELSE [call EXCEPT !.pc = nextpc, !.i = nexti,
                      !.results = Append(@, TierResult(tier, query, answer)),
                      !.calls = @ \o ClientCalls(method, answer)]

\* An ISBN loop that goes on to the next ISBN after a search with candidates
AfterIsbnSearch_continue(hit) == "isbn"

\* search: "if result.candidates: break" in the ISBN loop
AfterIsbnSearch(hit) == IF hit THEN "text" ELSE "isbn"

\* search: one iteration of "for isbn in isbns[:3]"
SearchByIsbn ==
  /\ call.fn = "search" /\ call.pc = "isbn"
  /\ call.i <= Len(call.evidence.isbn) /\ call.i <= 3
  /\ \E answer \in SierraAnswers :
       LET hit == answer.raises = "none" /\ answer.entries # << >>
       IN  call' = TierStep("isbn", call.evidence.isbn[call.i],
                            "search_by_isbn", answer,
                            AfterIsbnSearch(hit), call.i + 1)
  /\ UNCHANGED pipelineVars

\* search: the ISBN loop is over (no ISBN, three tried, or none left)
IsbnTierDone ==
  /\ call.fn = "search" /\ call.pc = "isbn"
  /\ (call.i > Len(call.evidence.isbn) \/ call.i > 3)
  /\ call' = [call EXCEPT !.pc = "text"]
  /\ UNCHANGED pipelineVars

\* search: "if title and author"
SearchByTitleAuthor ==
  /\ call.fn = "search" /\ call.pc = "text"
  /\ NeedTextTier(call.results)
  /\ call.evidence.title_guess /\ call.evidence.author_guess
  /\ \E answer \in SierraAnswers :
       call' = TierStep("title_author", << >>, "search_by_title_author",
                        answer, "return", call.i)
  /\ UNCHANGED pipelineVars

\* search: "elif title"
SearchByTitle ==
  /\ call.fn = "search" /\ call.pc = "text"
  /\ NeedTextTier(call.results)
  /\ call.evidence.title_guess /\ ~call.evidence.author_guess
  /\ \E answer \in SierraAnswers :
       call' = TierStep("title", << >>, "search_by_title", answer,
                        "return", call.i)
  /\ UNCHANGED pipelineVars

\* search: no text tier applies
NoTextTier ==
  /\ call.fn = "search" /\ call.pc = "text"
  /\ ~(NeedTextTier(call.results) /\ call.evidence.title_guess)
  /\ call' = [call EXCEPT !.pc = "return"]
  /\ UNCHANGED pipelineVars

\* search returned its CandidateSets; determine_match_type classifies it
Classify ==
  /\ call.fn = "search" /\ call.pc = "return"
  /\ call' = [call EXCEPT !.pc = "done",
                          !.match = determine_match_type(call.results,
                                                         call.evidence)]
  /\ UNCHANGED pipelineVars

NextSearch ==
  \/ SearchByIsbn
  \/ IsbnTierDone
  \/ SearchByTitleAuthor
  \/ SearchByTitle
  \/ NoTextTier
  \/ Classify

SpecSearch == InitSearch /\ [][NextSearch]_vars

\* ---------------------------------------------------------- openlibrary.py
\* OpenLibraryEnrichment() as the dataclass builds it, reduced to presence
\* of its parts
NewEnrichment ==
  [ source_query |-> "", match_confidence |-> "none", edition |-> FALSE,
    work |-> FALSE, search_results |-> FALSE, cover_url |-> FALSE,
    error |-> None ]

\* str(e) of what a client call can raise
ClientErrors == {"timed out", "connection refused"}

\* Editions the client can return: whether an author lacks a name, whether
\* the edition names a work, whether it has an ISBN or a cover id
Editions ==
  [unnamed_author : BOOLEAN, works : BOOLEAN, has_isbn : BOOLEAN,
   covers : BOOLEAN]

NoEdition ==
  [unnamed_author |-> FALSE, works |-> FALSE, has_isbn |-> FALSE,
   covers |-> FALSE]

\* An except clause that records the error and leaves the confidence alone
EnrichExcept_keeps_confidence(c, by, text) ==
  [c EXCEPT !.pc = "returned", !.raisedBy = by, !.raisedText = text,
            !.enrichment.error = text]

\* enrich_from_openlibrary: the except clause
EnrichExcept(c, by, text) ==
  [c EXCEPT !.pc = "returned", !.raisedBy = by, !.raisedText = text,
            !.enrichment.error = text,
            !.enrichment.match_confidence = "none"]

\* enrich_from_openlibrary called with an ISBN, a title, an author or none
InitEnrich ==
  /\ Standby
  /\ \E isbn, title, author \in BOOLEAN :
       call = [fn |-> "enrich_from_openlibrary",
               isbn |-> isbn, title |-> title, author |-> author,
               pc |-> "strategy1", strategy |-> 1, found |-> NoEdition,
               enrichment |-> NewEnrichment, calls |-> << >>,
               raisedBy |-> None, raisedText |-> None]

\* Strategy 1: "if isbn": client.lookup_isbn(isbn)
LookupIsbn ==
  /\ call.fn = "enrich_from_openlibrary" /\ call.pc = "strategy1"
  /\ LET c == [call EXCEPT !.calls = Append(@, "lookup_isbn"),
                           !.enrichment.source_query = "isbn"]
     IN  IF ~call.isbn
           THEN call' = [call EXCEPT !.pc = "strategy2", !.strategy = 2]
           ELSE \/ \E text \in ClientErrors :
                     call' = EnrichExcept(c, "lookup_isbn", text)
                \/ call' = [c EXCEPT !.pc = "strategy2", !.strategy = 2]
                \/ \E e \in Editions :
                     call' = [c EXCEPT !.pc = "authors", !.found = e,
                                       !.enrichment.edition = TRUE,
                                       !.enrichment.match_confidence = "high"]
  /\ UNCHANGED pipelineVars

\* "Resolve author names": client.get_author_name for an unnamed author
GetAuthorName ==
  /\ call.fn = "enrich_from_openlibrary" /\ call.pc = "authors"
  /\ LET c == [call EXCEPT !.calls = Append(@, "get_author_name")]
     IN  IF ~call.found.unnamed_author
           THEN call' = [call EXCEPT !.pc = "work"]
           ELSE \/ \E text \in ClientErrors :
                     call' = EnrichExcept(c, "get_author_name", text)
                \/ call' = [c EXCEPT !.pc = "work"]
  /\ UNCHANGED pipelineVars

\* "Fetch work": client.lookup_work, then the cover URL and the return
LookupWork ==
  /\ call.fn = "enrich_from_openlibrary" /\ call.pc = "work"
  /\ LET cover == IF call.strategy = 1
                    THEN call.found.has_isbn \/ call.found.covers
                    ELSE call.found.covers
         c == [call EXCEPT !.calls = Append(@, "lookup_work")]
     IN  IF ~call.found.works
           THEN call' = [call EXCEPT !.pc = "returned",
                                     !.enrichment.cover_url = cover]
           ELSE \/ \E text \in ClientErrors :
                     call' = EnrichExcept(c, "lookup_work", text)
                \/ \E work \in BOOLEAN :
                     call' = [c EXCEPT !.pc = "returned",
                                       !.enrichment.work = work,
                                       !.enrichment.cover_url = cover]
  /\ UNCHANGED pipelineVars

\* Strategy 2: "if title": client.search; without a title, "No search
\* criteria"
Search ==
  /\ call.fn = "enrich_from_openlibrary" /\ call.pc = "strategy2"
  /\ LET c == [call EXCEPT
                 !.calls = Append(@, "search"),
                 !.enrichment.source_query =
                    IF call.author THEN "title_author" ELSE "title"]
     IN  IF ~call.title
           THEN call' = [call EXCEPT !.pc = "returned",
                                     !.enrichment.match_confidence = "none"]
           ELSE \/ \E text \in ClientErrors :
                     call' = EnrichExcept(c, "search", text)
                \/ call' = [c EXCEPT !.pc = "returned"]
                \/ \E best_isbn \in BOOLEAN :
                     call' = [c EXCEPT
                       !.pc = IF best_isbn THEN "best" ELSE "returned",
                       !.enrichment.search_results = TRUE,
                       !.enrichment.match_confidence =
                          IF call.author THEN "medium" ELSE "low"]
  /\ UNCHANGED pipelineVars

\* Strategy 2: client.lookup_isbn(best.isbn[0])
LookupBest ==
  /\ call.fn = "enrich_from_openlibrary" /\ call.pc = "best"
  /\ LET c == [call EXCEPT !.calls = Append(@, "lookup_isbn")]
     IN  \/ \E text \in ClientErrors :
               call' = EnrichExcept(c, "lookup_isbn", text)
         \/ call' = [c EXCEPT !.pc = "returned"]
         \/ \E e \in Editions :
               call' = [c EXCEPT !.pc = "authors", !.found = e,
                                 !.enrichment.edition = TRUE]
  /\ UNCHANGED pipelineVars

NextEnrich ==
  \/ LookupIsbn
  \/ GetAuthorName
  \/ LookupWork
  \/ Search
  \/ LookupBest

SpecEnrich == InitEnrich /\ [][NextEnrich]_vars

\* ------------------------------------------------- openlibrary.scrub_pii
\* A text is whitespace-separated words; gaps[i] is the number of
\* whitespace characters between word i and word i+1.  The kinds of word
\* are the ones the PII patterns tell apart: runs of 3, 4, 10 and 13
\* digits, a hyphenated phone number, letters, an email address, and the
\* marker "[redacted]".
Texts ==
  LET WordKinds ==
        {"d3", "d4", "d10", "d13", "d3-d3-d4", "letters", "email"}
  IN
  UNION { { [none |-> FALSE, words |-> w, gaps |-> g] :
              w \in [1..n -> WordKinds], g \in [1..(n - 1) -> {1, 2}] }
          : n \in 1..MaxWords }

NoText == [none |-> TRUE, words |-> << >>, gaps |-> << >>]

\* re.compile(r"\b\d{3}[-.\s]?\d{3}[-.\s]?\d{4}\b") matching at word i
PhoneAt(words, gaps, i) ==
  IF words[i] \in {"d10", "d3-d3-d4"} THEN 1
  ELSE IF /\ i + 2 <= Len(words)
          /\ words[i] = "d3" /\ gaps[i] = 1
          /\ words[i + 1] = "d3" /\ gaps[i + 1] = 1
          /\ words[i + 2] = "d4"
    THEN 3
  ELSE 0

\* pattern.sub("[redacted]", text) for the phone pattern: leftmost matches,
\* left to right, from word i on
RECURSIVE PhoneSub(_, _, _)
PhoneSub(words, gaps, i) ==
  IF i > Len(words) THEN [words |-> << >>, gaps |-> << >>]
  ELSE LET n == PhoneAt(words, gaps, i)
           used == IF n = 0 THEN 1 ELSE n
           rest == PhoneSub(words, gaps, i + used)
           word == IF n = 0 THEN words[i] ELSE "[redacted]"
           last == i + used - 1
       IN  [ words |-> << word >> \o rest.words,
             gaps |-> IF last < Len(words)
                        THEN << gaps[last] >> \o rest.gaps ELSE << >> ]

\* pattern.sub for the email pattern and for r"\b\d{12,16}\b": a word
\* matches as a whole
WordSub(words, kind) ==
  [i \in 1..Len(words) |-> IF words[i] = kind THEN "[redacted]" ELSE words[i]]

\* scrub_pii: the three substitutions in PII_PATTERNS order, then
\* re.sub(r"\s{2,}", " ", ...).strip()
scrub_pii(text) ==
  IF text.none THEN text
  ELSE LET phone == PhoneSub(text.words, text.gaps, 1)
           email == WordSub(phone.words, "email")
           digits == WordSub(email, "d13")
       IN  [none |-> FALSE, words |-> digits,
            gaps |-> [i \in 1..Len(phone.gaps) |-> 1]]

\* OpenLibraryEnrichmentStage.process, lines 387-398, for one of the three
\* query values: the ISBN is the first canonical ISBN of the evidence, the
\* title and the author are the guesses extracted from the patron's text
InitScrub ==
  LET QueryValues(field) ==
        IF field = "isbn"
          THEN {NoText, [none |-> FALSE, words |-> << "d13" >>, gaps |-> << >>]}
          ELSE {NoText} \cup Texts
  IN
  /\ Standby
  /\ \E allow_pii \in {"missing", "false", "true"} :
     \E field \in {"isbn", "title", "author"} :
     \E text \in QueryValues(field) :
       call = [fn |-> "scrub", allow_pii |-> allow_pii, field |-> field,
               text |-> text, pc |-> "read", sent |-> NoText]

\* "if not self.config.openlibrary.allow_pii": scrub, then hand to the client
ScrubAndSend ==
  /\ call.fn = "scrub" /\ call.pc = "read" /\ call.allow_pii = "false"
  /\ call' = [call EXCEPT !.pc = "sent", !.sent = scrub_pii(call.text)]
  /\ UNCHANGED pipelineVars

\* allow_pii is true: the values go to the client as they are
SendUnscrubbed ==
  /\ call.fn = "scrub" /\ call.pc = "read" /\ call.allow_pii = "true"
  /\ call' = [call EXCEPT !.pc = "sent", !.sent = call.text]
  /\ UNCHANGED pipelineVars

\* The config object has no allow_pii attribute: AttributeError, caught by
\* the stage, and nothing goes to the client
NothingSent ==
  /\ call.fn = "scrub" /\ call.pc = "read" /\ call.allow_pii = "missing"
  /\ call' = [call EXCEPT !.pc = "failed"]
  /\ UNCHANGED pipelineVars

NextScrub == ScrubAndSend \/ SendUnscrubbed \/ NothingSent

SpecScrub == InitScrub /\ [][NextScrub]_vars

\* ------------------------------------------------------------ evidence.py
\* A Python dict is a function from its keys; {} is the empty function.
EmptyDict == << >>

\* dict.get(key, default) answering the default whatever the dict holds
Get_default(d, k, default) == default

\* dict.get(key, default)
Get(d, k, default) == IF k \in DOMAIN d THEN d[k] ELSE default

\* ExtractedUrl objects as extract_urls builds them
UrlGoodreads ==
  [ url |-> "https://goodreads.com/book/123",
    normalized_url |-> "https://goodreads.com/book/123",
    domain |-> "goodreads.com",
    classified_as |-> "discovery",
    extracted_ids |-> EmptyDict ]

UrlAmazon ==
  [ url |-> "https://www.amazon.com/dp/0306406152.",
    normalized_url |-> "https://www.amazon.com/dp/0306406152",
    domain |-> "www.amazon.com",
    classified_as |-> "retailer",
    extracted_ids |-> [isbn |-> << "0306406152", "9780306406157" >>] ]

\* What the stateless regular-expression helpers (extract_identifiers,
\* _looks_like_title, _looks_like_author, _extract_*_guess, _extract_*_hints)
\* answer on a text.  A text is given by these answers: its identifiers,
\* its prose and its keywords.  A text of fewer than three characters holds
\* no identifier or keyword.
OmniTexts ==
  LET NoIdentifiers ==
        [isbn |-> << >>, issn |-> << >>, doi |-> << >>, urls |-> << >>]
      NoKeywords == [year |-> None, formats |-> {}, languages |-> {}]
      TextIdentifiers ==
        { NoIdentifiers,
          [NoIdentifiers EXCEPT !.isbn = << "9780306406157" >>],
          [NoIdentifiers EXCEPT !.isbn = << "9780306406157" >>,
                                !.urls = << UrlAmazon >>],
          [NoIdentifiers EXCEPT !.urls = << UrlGoodreads >>],
          [NoIdentifiers EXCEPT !.issn = << "12345679" >>,
                                !.doi = << "10.1000/xyz123" >>] }
      TextProse ==
        { [short |-> TRUE, title_like |-> FALSE, author_like |-> FALSE,
           title_guess |-> None, author_guess |-> None],
          [short |-> FALSE, title_like |-> FALSE, author_like |-> FALSE,
           title_guess |-> "dune", author_guess |-> None],
          [short |-> FALSE, title_like |-> TRUE, author_like |-> FALSE,
           title_guess |-> "Dune Messiah", author_guess |-> None],
          [short |-> FALSE, title_like |-> TRUE, author_like |-> TRUE,
           title_guess |-> "Dune Messiah", author_guess |-> "Frank Herbert"] }
      TextKeywords ==
        { NoKeywords,
          [NoKeywords EXCEPT !.year = "2020", !.formats = {"ebook"}],
          [NoKeywords EXCEPT !.languages = {"es"}] }
  IN  { x \in { [ids |-> i, prose |-> p, keywords |-> k] :
                  i \in TextIdentifiers, p \in TextProse, k \in TextKeywords } :
          x.prose.short => (x.ids = NoIdentifiers /\ x.keywords = NoKeywords) }

\* The patron_notes text "note": it names a URL and a format
NoteText ==
  [ ids |-> [isbn |-> << >>, issn |-> << >>, doi |-> << >>,
             urls |-> << UrlGoodreads >>],
    keywords |-> [year |-> None, formats |-> {"hardcover"},
                  languages |-> {}] ]

\* FORMAT_KEYWORDS.get(preference.lower(), preference.lower())
NormalizedFormat(preference) ==
  CASE preference = "Paperback" -> "paperback"
    [] preference = "kindle" -> "ebook"
    [] OTHER -> preference

\* _extract_format_hints and _extract_language_hints: the keywords found
\* among the first n of a table, in the table's order
RECURSIVE HintList(_, _, _)
HintList(order, found, n) ==
  IF n = 0 THEN << >>
  ELSE IF order[n] \in found
    THEN Append(HintList(order, found, n - 1), order[n])
    ELSE HintList(order, found, n - 1)

\* combined_text as build() sees it: the helpers' answers on
\* omni_input + " " + patron_notes (extract_urls lists a URL once)
CombinedText(omni, notes) ==
  LET CombinedUrls(a, b) ==
        a \o SelectSeq(b, LAMBDA u : \A i \in DOMAIN a : a[i] # u)
  IN  IF notes = "note"
        THEN [ ids |-> [omni.ids EXCEPT
                          !.urls = CombinedUrls(@, NoteText.ids.urls)],
               keywords |-> [omni.keywords EXCEPT
                          !.formats = @ \cup NoteText.keywords.formats] ]
        ELSE [ids |-> omni.ids, keywords |-> omni.keywords]

\* _url_to_dict
url_to_dict(u) ==
  [ k \in {"url", "domain", "classified_as"}
        \cup (IF u.normalized_url # u.url THEN {"normalized_url"} ELSE {})
        \cup (IF u.extracted_ids # EmptyDict THEN {"extracted_ids"} ELSE {})
      |-> u[k] ]

\* EvidencePacketBuilder.__init__
NewBuilder(omni, format_preference, notes) ==
  [ omni_input |-> omni, format_preference |-> format_preference,
    patron_notes |-> notes, warnings |-> << >>, errors |-> << >> ]

\* The lists self._warnings and self._errors after build() has run on
\* builder b
BuilderAfterBuild(b) ==
  LET combined == CombinedText(b.omni_input, b.patron_notes)
      WarnNoTitle ==
        "No ISBN found and input does not appear to contain a clear title"
      ErrTooShort == "Input too short to process"
  IN  [ b EXCEPT
          !.warnings = IF combined.ids.isbn = << >>
                          /\ ~b.omni_input.prose.title_like
                         THEN Append(@, WarnNoTitle) ELSE @,
          !.errors = IF b.omni_input.prose.short
                       THEN Append(@, ErrTooShort) ELSE @ ]

\* EvidencePacketBuilder.build: the packet returned by the build on builder
\* number owner at time now.  quality.warnings and quality.errors are the
\* builder's own list objects, so the packet names the builder and the
\* lists are read through it.
build(b, owner, now) ==
  LET omni == b.omni_input
      combined == CombinedText(omni, b.patron_notes)
      FormatOrder == << "hardcover", "paperback", "ebook", "audiobook" >>
      LanguageOrder == << "en", "es", "fr" >>
      hints == HintList(FormatOrder, combined.keywords.formats,
                        Len(FormatOrder))
      normalized == NormalizedFormat(b.format_preference)
      format_hints ==
        IF b.format_preference # None
             /\ \A i \in DOMAIN hints : hints[i] # normalized
          THEN << normalized >> \o hints ELSE hints
  IN  [ schema_version |-> "1.0.0",
        created_utc |-> now,
        inputs |->
          [ omni_input |-> omni,
            narrative_context |-> b.patron_notes,
            structured_hints |->
              IF b.format_preference # None
                THEN [format_preference |-> b.format_preference]
                ELSE EmptyDict ],
        identifiers |->
          [ isbn |-> combined.ids.isbn,
            issn |-> combined.ids.issn,
            doi |-> combined.ids.doi,
            wikidata_qid |-> << >>,
            urls |-> [i \in DOMAIN combined.ids.urls |->
                        url_to_dict(combined.ids.urls[i])] ],
        extracted |->
          [ title_guess |-> omni.prose.title_guess,
            author_guess |-> omni.prose.author_guess,
            series_guess |-> None,
            volume_guess |-> None,
            publisher_guess |-> None,
            year_guess |-> combined.keywords.year,
            edition_guess |-> None,
            format_hints |-> format_hints,
            language_hints |-> HintList(LanguageOrder,
                                        combined.keywords.languages,
                                        Len(LanguageOrder)),
            llm_extraction |-> None ],
        quality |->
          [ signals |->
              [ valid_isbn_present |-> combined.ids.isbn # << >>,
                valid_issn_present |-> combined.ids.issn # << >>,
                doi_present |-> combined.ids.doi # << >>,
                url_present |-> combined.ids.urls # << >>,
                title_like_text_present |-> omni.prose.title_like,
                author_like_text_present |-> omni.prose.author_like ],
            lists |-> owner ] ]

\* The packet as a reader finds it: quality.warnings and quality.errors are
\* whatever the builder's lists hold at the time of reading
Deref(packet, builders) ==
  [ packet EXCEPT
      !.quality = [ signals |-> @.signals,
                    warnings |-> builders[@.lists].warnings,
                    errors |-> builders[@.lists].errors ] ]

\* _dataclass_to_dict on a dict that asdict produced: the keys whose value
\* is None are left out.  optional names the keys whose value can be None.
DropNone(d, optional) ==
  [ k \in {key \in DOMAIN d : key \notin optional \/ d[key] # None}
      |-> d[k] ]

\* EvidencePacket.to_dict
to_dict(p) ==
  LET OptionalInputs == {"narrative_context"}
      OptionalExtracted ==
        { "title_guess", "author_guess", "series_guess", "volume_guess",
          "publisher_guess", "year_guess", "edition_guess",
          "llm_extraction" }
  IN
  [ schema_version |-> p.schema_version,
    created_utc |-> p.created_utc,
    inputs |-> DropNone(p.inputs, OptionalInputs),
    identifiers |-> p.identifiers,
    extracted |-> DropNone(p.extracted, OptionalExtracted),
    quality |-> p.quality ]

\* EvidencePacket.from_dict
from_dict(data) ==
  [ schema_version |-> data["schema_version"],
    created_utc |-> data["created_utc"],
    inputs |->
      [ omni_input |-> data["inputs"]["omni_input"],
        narrative_context |-> Get(data["inputs"], "narrative_context", None),
        structured_hints |->
          Get(data["inputs"], "structured_hints", EmptyDict) ],
    identifiers |->
      [ isbn |-> Get(data["identifiers"], "isbn", << >>),
        issn |-> Get(data["identifiers"], "issn", << >>),
        doi |-> Get(data["identifiers"], "doi", << >>),
        wikidata_qid |-> Get(data["identifiers"], "wikidata_qid", << >>),
        urls |-> Get(data["identifiers"], "urls", << >>) ],
    extracted |->
      [ title_guess |-> Get(data["extracted"], "title_guess", None),
        author_guess |-> Get(data["extracted"], "author_guess", None),
        series_guess |-> Get(data["extracted"], "series_guess", None),
        volume_guess |-> Get(data["extracted"], "volume_guess", None),
        publisher_guess |-> Get(data["extracted"], "publisher_guess", None),
        year_guess |-> Get(data["extracted"], "year_guess", None),
        edition_guess |-> Get(data["extracted"], "edition_guess", None),
        format_hints |-> Get(data["extracted"], "format_hints", << >>),
        language_hints |-> Get(data["extracted"], "language_hints", << >>),
        llm_extraction |-> Get(data["extracted"], "llm_extraction", None) ],
    quality |->
      [ signals |->
          [ k \in { "valid_isbn_present", "valid_issn_present",
                    "doi_present", "url_present",
                    "title_like_text_present",
                    "author_like_text_present" }
              |-> Get(data["quality"]["signals"], k, FALSE) ],
        warnings |-> Get(data["quality"], "warnings", << >>),
        errors |-> Get(data["quality"], "errors", << >>) ] ]

\* json.dumps of the dict to_dict returns.  JSON text is given by its
\* structure: strings, numbers, true/false, arrays and objects.
json_dumps(d) ==
  LET JString(v) == [t |-> "string", v |-> v]
      JNumber(v) == [t |-> "number", v |-> v]
      JBool(v) == [t |-> IF v THEN "true" ELSE "false"]
      JArray(list, Item(_)) ==
        [t |-> "array", items |-> [i \in DOMAIN list |-> Item(list[i])]]
      JObject(x, Member(_, _)) ==
        [t |-> "object", members |-> [k \in DOMAIN x |-> Member(k, x[k])]]
      JStringList(list) == JArray(list, JString)
      JStringMember(k, v) == JString(v)
      JBoolMember(k, v) == JBool(v)
      JStringListMember(k, v) == JStringList(v)
      JUrlMember(k, v) ==
        IF k = "extracted_ids" THEN JObject(v, JStringListMember)
        ELSE JString(v)
      JUrl(u) == JObject(u, JUrlMember)
      JInputsMember(k, v) ==
        IF k = "structured_hints" THEN JObject(v, JStringMember)
        ELSE JString(v)
      JIdentifiersMember(k, v) ==
        IF k = "urls" THEN JArray(v, JUrl) ELSE JStringList(v)
      JExtractedMember(k, v) ==
        CASE k \in {"format_hints", "language_hints"} -> JStringList(v)
          [] k = "year_guess" -> JNumber(v)
          [] OTHER -> JString(v)
      JQualityMember(k, v) ==
        IF k = "signals" THEN JObject(v, JBoolMember) ELSE JStringList(v)
      JPacketMember(k, v) ==
        CASE k = "inputs" -> JObject(v, JInputsMember)
          [] k = "identifiers" -> JObject(v, JIdentifiersMember)
          [] k = "extracted" -> JObject(v, JExtractedMember)
          [] k = "quality" -> JObject(v, JQualityMember)
          [] OTHER -> JString(v)
  IN  JObject(d, JPacketMember)

\* json.loads
RECURSIVE json_loads(_)
json_loads(j) ==
  CASE j.t = "string" -> j.v
    [] j.t = "number" -> j.v
    [] j.t = "true" -> TRUE
    [] j.t = "false" -> FALSE
    [] j.t = "array" -> [i \in DOMAIN j.items |-> json_loads(j.items[i])]
    [] j.t = "object" ->
         [k \in DOMAIN j.members |-> json_loads(j.members[k])]

\* EvidencePacket.to_json and EvidencePacket.from_json
to_json(p) == json_dumps(to_dict(p))

from_json(text) == from_dict(json_loads(text))

\* Two builders constructed from the same inputs; nothing built yet
InitEvidence ==
  /\ Standby
  /\ \E omni \in OmniTexts :
     \E fp \in {None, "Paperback", "kindle", "vinyl"} :
     \E notes \in {None, "", "note"} :
       call = [ fn |-> "evidence",
                builders |-> [b \in 1..2 |-> NewBuilder(omni, fp, notes)],
                packets |-> << >>,
                returned |-> << >>,
                restored |-> << >> ]

\* builder.build() on one of the builders; what the call returned is kept
\* as the caller saw it on return
BuildPacket ==
  /\ call.fn = "evidence" /\ Len(call.packets) < MaxBuilds
  /\ call.restored = << >>
  /\ \E b \in 1..2 :
       LET after == [call.builders EXCEPT ![b] = BuilderAfterBuild(@)]
           packet == build(call.builders[b], b, Len(call.packets) + 1)
       IN  call' = [call EXCEPT
                      !.builders = after,
                      !.packets = Append(@, packet),
                      !.returned = Append(@, Deref(packet, after))]
  /\ UNCHANGED pipelineVars

\* EvidencePacket.from_json(p.to_json()) on the packet built last
RoundTripJson ==
  /\ call.fn = "evidence" /\ call.packets # << >> /\ call.restored = << >>
  /\ LET p == Deref(call.packets[Len(call.packets)], call.builders)
     IN  call' = [call EXCEPT !.restored =
                    << [via |-> "json", p |-> p,
                        q |-> from_json(to_json(p))] >>]
  /\ UNCHANGED pipelineVars

\* EvidencePacket.from_dict(p.to_dict()) on the packet built last
RoundTripDict ==
  /\ call.fn = "evidence" /\ call.packets # << >> /\ call.restored = << >>
  /\ LET p == Deref(call.packets[Len(call.packets)], call.builders)
     IN  call' = [call EXCEPT !.restored =
                    << [via |-> "dict", p |-> p,
                        q |-> from_dict(to_dict(p))] >>]
  /\ UNCHANGED pipelineVars

NextEvidence == BuildPacket \/ RoundTripJson \/ RoundTripDict

SpecEvidence == InitEvidence /\ [][NextEvidence]_vars

\* ------------------------------------------------------------- properties
\* The stages a log of stage invocations names, in the order invoked
LogStages(log) == [i \in 1..Len(log) |-> log[i].stage]

\* The enabled stages among the first n stages of the pipeline, in order
RECURSIVE EnabledPrefix(_, _)
EnabledPrefix(n, cfg) ==
  IF n = 0 THEN << >>
  ELSE IF is_enabled(Stages[n], cfg)
    THEN Append(EnabledPrefix(n - 1, cfg), Stages[n])
    ELSE EnabledPrefix(n - 1, cfg)

\* The position in the pipeline of the stage that appends an event type
\* (0 for the orchestrator's own events)
StageOfEvent(e) ==
  CASE e = "bot_evidence_extracted" -> 1
    [] e = "bot_catalog_checked" -> 2
    [] e = "bot_openlibrary_checked" -> 3
    [] e = "bot_consortium_checked" -> 4
    [] e = "bot_refined" -> 5
    [] e = "bot_assessed" -> 6
    [] e = "bot_action_taken" -> 7
    [] OTHER -> 0

\* The openlibrary_* columns of a row
OpenLibraryFields(row) ==
  << row.openlibrary_found, row.openlibrary_enrichment_json,
     row.openlibrary_checked_ts >>

\* C1: over any sequence of run_once and process_single invocations a
\* request's bot_status changes only along pending->processing,
\* processing->completed and processing->error.
C1_LifecycleEdges ==
  [][ \A r \in Requests :
        db'[r].bot_status # db[r].bot_status =>
          << db[r].bot_status, db'[r].bot_status >> \in
            { << "pending", "processing" >>,
              << "processing", "completed" >>,
              << "processing", "error" >> } ]_vars

\* C2: a stage returning success=False does not stop process_request: the
\* stage loop reaches its except clause only through an exception, never
\* through a failure result; the stages invoked so far are exactly the
\* enabled stages up to the loop's position, once each and in pipeline
\* order; and when the loop ends without an exception, every enabled stage
\* was invoked and the request is marked completed.
C2_FailedStageDoesNotStopTheRun ==
  \A w \in Workers :
    LET p == proc[w]
    IN  /\ p.pc = "stage" =>
             LogStages(p.log) = EnabledPrefix(p.si - 1, config)
        /\ p.exc # None => p.cause # "stage_failed"
        /\ (p.pc = "returned" /\ p.outcome = "true") =>
             /\ LogStages(p.log) = EnabledPrefix(Len(Stages), config)
             /\ db[p.rid].bot_status = "completed"

\* C2 witness: process_request returned True although a stage that was not
\* the last one invoked reported failure
C2_Witness ==
  \E w \in Workers :
    LET p == proc[w]
    IN  /\ p.pc = "returned" /\ p.outcome = "true"
        /\ db[p.rid].bot_status = "completed"
        /\ \E i \in 1..(Len(p.log) - 1) : p.log[i].result = "failed"

C4_AuditTrailOrdered ==
  \A w \in Workers :
    LET p == proc[w]
        ev == events[p.rid]
        stageIdx == {i \in DOMAIN ev : StageOfEvent(ev[i]) > 0}
    IN  (p.pc = "returned" /\ p.outcome = "true") =>
          /\ \E s \in DOMAIN ev :
               ev[s] = "bot_started" /\ \A i \in stageIdx : s < i
          /\ \E c \in DOMAIN ev :
               ev[c] = "bot_completed" /\ \A i \in stageIdx : i < c
          /\ \A i, j \in stageIdx :
               i < j => StageOfEvent(ev[i]) <= StageOfEvent(ev[j])

\* C5: every invocation of an enabled stage's process that returns a
\* result appends at least one event, skips and caught failures included.
C5_EveryInvocationLogsAnEvent ==
  \A w \in Workers :
    \A i \in DOMAIN proc[w].log :
      proc[w].log[i].result # "raised" => proc[w].log[i].nevents >= 1

\* C6: with two workers running against the same store, no request has
\* its stage pipeline executed by both of them.
C6_ExclusiveClaim ==
  \A w1, w2 \in Workers :
    (w1 # w2 /\ proc[w1].rid # 0 /\ proc[w1].rid = proc[w2].rid) =>
       ~(Len(proc[w1].log) > 0 /\ Len(proc[w2].log) > 0)

C9_DefaultEnrichmentGate ==
  config = DefaultConfig =>
    \A w \in Workers :
      \A i \in DOMAIN proc[w].log :
        LET e == proc[w].log[i]
            evidence == e.seen.evidence_packet_json
        IN  ( /\ e.stage = "openlibrary_enrichment"
              /\ e.seen.catalog_checked_ts # 0
              /\ e.seen.openlibrary_checked_ts = 0
              /\ evidence.present
              /\ (evidence.isbn \/ evidence.title_guess) ) =>
              /\ e.seen.catalog_match \in {"none", "partial"} => e.q >= 1
              /\ e.seen.catalog_match = "exact" => e.q = 0

\* C10: an enrichment stage invocation on a request whose
\* openlibrary_checked_ts is set skips with reason already_checked, issues
\* no secondary-source call, appends nothing and leaves the openlibrary_*
\* columns as they were, whatever catalog_match and the configuration are.
C10_AlreadyCheckedSkips ==
  \A w \in Workers :
    \A i \in DOMAIN proc[w].log :
      LET e == proc[w].log[i]
      IN  ( /\ e.stage = "openlibrary_enrichment"
            /\ e.seen.openlibrary_checked_ts # 0 ) =>
            /\ e.result = "ok"
            /\ e.note = "already_checked"
            /\ e.q = 0
            /\ OpenLibraryFields(db[proc[w].rid]) = OpenLibraryFields(e.seen)

\* C10 witness: a request enriched in an earlier run is processed again
\* under a configuration whose other gate conditions would let the stage
\* run (exact match with run_on_exact_catalog_match), and the stage skipped
C10_Witness ==
  \E w \in Workers :
    \E i \in DOMAIN proc[w].log :
      LET e == proc[w].log[i]
      IN  /\ e.stage = "openlibrary_enrichment"
          /\ e.seen.openlibrary_checked_ts # 0
          /\ e.seen.catalog_match = "exact"
          /\ config.run_on_exact_catalog_match
          /\ e.note = "already_checked"
          /\ proc[w].mode = "single"

\* The ISBN check sums computed from their definitions: mod 11 with weights
\* 10..1 (X = 10 in the last place), mod 10 with weights 1,3,1,3...
\* C19: canonicalize_isbn never raises; it returns a value exactly when
\* its input, hyphens and spaces removed and upper-cased, is a
\* checksum-valid ISBN-10 or ISBN-13; the value is then a checksum-valid
\* 13-digit string, and for an ISBN-10 it is 978 + the first nine digits +
\* the mod-10 check digit.
C19_CanonicalizeIsbn ==
  (call.fn = "canonicalize_isbn" /\ call.done) =>
    LET IsChecksumValid10(t) ==
          /\ Len(t) = 10
          /\ \A i \in 1..9 : t[i] \in Digits
          /\ t[10] \in Digits \cup {"X"}
          /\ LET v(i) == IF t[i] = "X" THEN 10 ELSE DigitValue(t[i])
             IN  (10 * v(1) + 9 * v(2) + 8 * v(3) + 7 * v(4) + 6 * v(5)
                    + 5 * v(6) + 4 * v(7) + 3 * v(8) + 2 * v(9) + v(10))
                   % 11 = 0
        IsChecksumValid13(t) ==
          /\ Len(t) = 13
          /\ \A i \in 1..13 : t[i] \in Digits
          /\ LET v(i) == DigitValue(t[i])
             IN  (v(1) + 3 * v(2) + v(3) + 3 * v(4) + v(5) + 3 * v(6) + v(7)
                    + 3 * v(8) + v(9) + 3 * v(10) + v(11) + 3 * v(12)
                    + v(13)) % 10 = 0
        s == strip_isbn(call.arg)
        r == call.result
    IN  /\ r.kind # "ValueError"
        /\ (r.kind = "value") <=> (IsChecksumValid10(s) \/ IsChecksumValid13(s))
        /\ r.kind = "value" =>
             /\ IsChecksumValid13(r.value)
             /\ IsChecksumValid10(s) =>
                  SubSeq(r.value, 1, 12) = << "9", "7", "8" >> \o SubSeq(s, 1, 9)
             /\ IsChecksumValid13(s) => r.value = s

\* The ISBN-tier results of a search that found candidates
IsbnHits(results) ==
  {i \in DOMAIN results :
     results[i].tier = "isbn" /\ results[i].candidates # << >>}

\* C11: in CatalogSearcher.search, once an ISBN search has returned at
\* least one candidate, neither the title+author search nor the title-only
\* search is issued for that evidence packet.
C11_IsbnHitShortCircuits ==
  (call.fn = "search" /\ IsbnHits(call.results) # {}) =>
    /\ \A j \in DOMAIN call.calls :
         call.calls[j] \notin {"search_by_title_author", "search_by_title"}
    /\ \A j \in DOMAIN call.results : call.results[j].tier = "isbn"

\* C11 witness: a search on evidence with an ISBN, a title and an author
\* returned after an ISBN hit without any text search
C11_Witness ==
  /\ call.fn = "search" /\ call.pc = "done"
  /\ call.evidence.title_guess /\ call.evidence.author_guess
  /\ IsbnHits(call.results) # {}
  /\ \A j \in DOMAIN call.calls :
       call.calls[j] \in {"search_by_isbn", "get_item_availability"}

\* C12: determine_match_type returns exact iff some candidate's canonical
\* ISBN set intersects the evidence's canonical ISBN set, otherwise partial
\* iff at least one candidate exists, otherwise none.
C12_MatchTypeByCanonicalIsbn ==
  (call.fn = "search" /\ call.pc = "done") =>
    LET CanonicalIsbns(texts) ==
          { canonicalize_isbn(texts[i]).value :
              i \in {j \in DOMAIN texts :
                       canonicalize_isbn(texts[j]).kind = "value"} }
        all == get_all_candidates(call.results)
        wanted == CanonicalIsbns(call.evidence.isbn)
        hit == \E k \in DOMAIN all : CanonicalIsbns(all[k].isbn) \cap wanted # {}
    IN  call.match = IF hit THEN "exact"
                     ELSE IF Len(all) > 0 THEN "partial" ELSE "none"

\* C16: an exception raised by one tier's catalog search never leaves
\* search(): it becomes the error of that tier's SearchResult, which has no
\* candidates; the ISBN loop still goes on to the remaining ISBNs (of the
\* first three) until one finds candidates, and when no ISBN search found
\* candidates the applicable text tier is still attempted.
C16_TierErrorIsCaptured ==
  call.fn = "search" =>
    LET results == call.results
        isbns == call.evidence.isbn
        limit == IF Len(isbns) < 3 THEN Len(isbns) ELSE 3
        tried == {i \in DOMAIN results : results[i].tier = "isbn"}
        text == IF call.evidence.author_guess THEN "title_author" ELSE "title"
    IN  /\ call.pc # "raised"
        /\ \A i \in DOMAIN results :
             results[i].error => results[i].candidates = << >>
        /\ \A i \in tried : i <= limit /\ results[i].query = isbns[i]
        /\ call.pc \in {"text", "return", "done"} =>
             \/ IsbnHits(results) # {}
             \/ tried = 1..limit
        /\ (call.pc \in {"return", "done"} /\ IsbnHits(results) = {}
              /\ call.evidence.title_guess) =>
             /\ Len(results) = limit + 1
             /\ results[limit + 1].tier = text

\* C16 witness: the first ISBN search raised, the second ISBN was still
\* searched, and the text tier ran after the ISBN tier found nothing
C16_Witness ==
  /\ call.fn = "search" /\ call.pc = "done"
  /\ Len(call.results) >= 3
  /\ call.results[1].tier = "isbn" /\ call.results[1].error
  /\ call.results[2].tier = "isbn"
  /\ call.results[Len(call.results)].tier = "title_author"

\* C13: enrich_from_openlibrary never raises: when a secondary-source call
\* (identifier lookup, search, author or work lookup) raises, the function
\* returns a result whose error is the exception text and whose
\* match_confidence is none; a result without a raised call has no error.
C13_EnrichNeverRaises ==
  call.fn = "enrich_from_openlibrary" =>
    /\ call.pc # "raised"
    /\ call.raisedBy # None =>
         /\ call.pc = "returned"
         /\ call.raisedText \in ClientErrors
         /\ call.enrichment.error = call.raisedText
         /\ call.enrichment.match_confidence = "none"
         /\ call.calls[Len(call.calls)] = call.raisedBy
    /\ call.raisedBy = None => call.enrichment.error = None

\* C13 witness: the work lookup raised after an ISBN lookup had found an
\* edition (and set the confidence to high)
C13_Witness ==
  /\ call.fn = "enrich_from_openlibrary" /\ call.pc = "returned"
  /\ call.raisedBy = "lookup_work"
  /\ call.strategy = 1 /\ call.enrichment.edition
  /\ call.enrichment.error = "timed out"
  /\ call.enrichment.match_confidence = "none"

\* C14: unless allow_pii is configured, no ISBN, title or author value
\* handed to the secondary-source client holds a phone-number-shaped run,
\* an email address or a run of 12-16 digits.
C14_NoPIIReachesSecondarySource ==
  LET HasPII(text) ==
        /\ ~text.none
        /\ \E i \in DOMAIN text.words :
             \/ text.words[i] \in {"email", "d13"}
             \/ PhoneAt(text.words, text.gaps, i) > 0
  IN  (call.fn = "scrub" /\ call.pc = "sent" /\ call.allow_pii # "true") =>
        ~HasPII(call.sent)

\* C15: process_request never invokes a stage whose is_enabled() is false:
\* the stages invoked are the enabled ones in pipeline order, passing over a
\* disabled stage changes neither the store nor the audit trail, no event
\* of a disabled stage is ever appended and its columns stay as they were
\* when the request was created.
C15_DisabledStageNeverInvoked ==
  [][ LET StageFields(stage, row) ==
            CASE stage = "catalog_lookup" ->
                   << row.catalog_match, row.catalog_holdings_json,
                      row.catalog_checked_ts >>
              [] stage = "openlibrary_enrichment" -> OpenLibraryFields(row)
              [] stage = "consortium_check" ->
                   << row.consortium_available, row.consortium_checked_ts >>
              [] OTHER -> << >>
      IN  /\ \A w \in Workers :
               /\ \E n \in 0..Len(Stages) :
                    LogStages(proc'[w].log) = EnabledPrefix(n, config)
               /\ ( /\ proc[w].pc = "stage" /\ proc[w].si <= Len(Stages)
                    /\ ~is_enabled(Stages[proc[w].si], config)
                    /\ proc'[w] # proc[w] ) =>
                    /\ proc'[w] = [proc[w] EXCEPT !.si = @ + 1]
                    /\ db' = db /\ events' = events
          /\ \A r \in Requests :
               /\ \A i \in DOMAIN events'[r] :
                    StageOfEvent(events'[r][i]) > 0 =>
                      is_enabled(Stages[StageOfEvent(events'[r][i])], config)
               /\ \A i \in DOMAIN Stages :
                    ~is_enabled(Stages[i], config) =>
                      StageFields(Stages[i], db'[r]) =
                        StageFields(Stages[i], NewRow(db'[r].raw_query, 0))
    ]_vars

\* A request processed to completion under a configuration with the
\* catalog stage off: the stages invoked are exactly the enabled ones
C15_Witness ==
  \E w \in Workers :
    /\ proc[w].pc = "returned" /\ proc[w].outcome = "true"
    /\ ~is_enabled("catalog_lookup", config)
    /\ LogStages(proc[w].log) = EnabledPrefix(Len(Stages), config)
    /\ Len(proc[w].log) < Len(Stages)

\* C17: two packets built from identical inputs have identical identifiers,
\* extracted and quality sections, whether they come from two builders or
\* from two build() calls on one builder.
C17_BuildIsDeterministic ==
  call.fn = "evidence" =>
    LET Sections(p) == << p.identifiers, p.extracted, p.quality >>
    IN  \A i, j \in DOMAIN call.returned :
          Sections(call.returned[i]) = Sections(call.returned[j])

\* C18: a packet restored by from_json(to_json(p)) or from_dict(to_dict(p))
\* has the isbn, issn, doi and url lists and the six quality-signal
\* booleans of p.
C18_RoundTripKeepsIdentifiersAndSignals ==
  (call.fn = "evidence" /\ call.restored # << >>) =>
    LET p == call.restored[1].p
        q == call.restored[1].q
    IN  /\ q.identifiers.isbn = p.identifiers.isbn
        /\ q.identifiers.issn = p.identifiers.issn
        /\ q.identifiers.doi = p.identifiers.doi
        /\ q.identifiers.urls = p.identifiers.urls
        /\ q.quality.signals = p.quality.signals

\* A packet with an ISBN and a URL carrying embedded identifiers, with
\* optional fields left out by to_dict, restored from its JSON text
C18_Witness ==
  /\ call.fn = "evidence" /\ call.restored # << >>
  /\ call.restored[1].via = "json"
  /\ call.restored[1].p.identifiers.isbn # << >>
  /\ \E i \in DOMAIN call.restored[1].p.identifiers.urls :
       "extracted_ids" \in DOMAIN call.restored[1].p.identifiers.urls[i]
  /\ call.restored[1].p.extracted.author_guess = None
  /\ call.restored[1].p.quality.signals.valid_isbn_present

\* C20: within one run of process_request the catalog stage is handed the
\* evidence packet that the evidence stage of that run stored, and the
\* enrichment stage is handed the catalog_match and catalog_checked_ts that
\* the catalog stage of that run stored, not the values of the fetched row
\* (stated while process_request is at work on the request).
C20_StagesSeeEarlierWrites ==
  \A w \in Workers :
    LET p == proc[w]
        log == p.log
        stored == db[p.rid]
    IN  p.pc \in {"stage", "except", "returned"} =>
        \A j \in DOMAIN log :
          /\ ( /\ log[j].stage = "catalog_lookup"
               /\ \E i \in 1..(j - 1) : log[i].stage = "evidence_extraction" ) =>
               /\ log[j].seen.evidence_packet_json = stored.evidence_packet_json
               /\ log[j].seen.evidence_extracted_ts = stored.evidence_extracted_ts
               /\ \A i \in 1..(j - 1) :
                    ( log[i].stage = "evidence_extraction"
                      /\ log[i].note = "extracted" ) =>
                      /\ log[j].seen.evidence_packet_json =
                           Build(log[i].seen.raw_query, clock)
                      /\ log[j].seen.evidence_extracted_ts = clock
          /\ ( /\ log[j].stage = "openlibrary_enrichment"
               /\ \E i \in 1..(j - 1) : log[i].stage = "catalog_lookup" ) =>
               /\ log[j].seen.catalog_match = stored.catalog_match
               /\ log[j].seen.catalog_checked_ts = stored.catalog_checked_ts
               /\ \A i \in 1..(j - 1) :
                    ( log[i].stage = "catalog_lookup"
                      /\ log[i].note = "searched" /\ log[i].result = "ok" ) =>
                      /\ log[j].seen.catalog_match \in
                           Matches(log[i].seen.evidence_packet_json)
                      /\ log[j].seen.catalog_checked_ts = clock

\* A run that started from a row with no evidence packet and no catalog
\* check, in which the enrichment stage went on to query on the strength of
\* the catalog result stored earlier in the same run
C20_Witness ==
  \E w \in Workers :
    \E j \in DOMAIN proc[w].log :
      /\ proc[w].log[1].stage = "evidence_extraction"
      /\ proc[w].log[1].seen.evidence_packet_json = NoPacket
      /\ proc[w].log[1].seen.catalog_checked_ts = 0
      /\ proc[w].log[j].stage = "openlibrary_enrichment"
      /\ proc[w].log[j].note = "queried"
      /\ proc[w].log[j].seen.catalog_checked_ts = clock
      /\ proc[w].log[j].seen.evidence_packet_json.present

\* C21: a catalog stage that skipped (no evidence packet, no search
\* criteria) or failed with a caught exception left catalog_match and
\* catalog_checked_ts as they were, and for a request never catalog-checked
\* before the enrichment stage of the same run then issues no query and
\* skips with reason no_catalog_check.
C21_NoSearchLeavesCatalogFields ==
  \A w \in Workers :
    LET p == proc[w]
        log == p.log
    IN  p.pc \in {"stage", "except", "returned"} =>
        \A j \in DOMAIN log :
          ( /\ log[j].stage = "catalog_lookup"
            /\ \/ log[j].note \in {"no_evidence_packet", "no_search_criteria"}
               \/ log[j].result = "failed"
            /\ j < Len(log) ) =>
            /\ log[j + 1].seen.catalog_match = log[j].seen.catalog_match
            /\ log[j + 1].seen.catalog_checked_ts =
                 log[j].seen.catalog_checked_ts
            /\ ( log[j].seen.catalog_checked_ts = 0
                 /\ log[j + 1].stage = "openlibrary_enrichment" ) =>
                 /\ log[j + 1].note = "no_catalog_check"
                 /\ log[j + 1].q = 0

\* C22: the identifier tier issues one catalog search per ISBN, for the
\* first ISBNs of the evidence in list order and for at most three of them,
\* and no ISBN search follows one that returned a candidate.
C22_IsbnTierOrderAndLimit ==
  call.fn = "search" =>
    LET results == call.results
        isbns == call.evidence.isbn
        tried == {i \in DOMAIN results : results[i].tier = "isbn"}
        issued == {j \in DOMAIN call.calls : call.calls[j] = "search_by_isbn"}
    IN  /\ \E n \in 0..3 : n <= Len(isbns) /\ tried = 1..n
        /\ Cardinality(issued) = Cardinality(tried)
        /\ \A i \in tried : results[i].query = isbns[i]
        /\ \A i, j \in tried : i < j => results[i].candidates = << >>
        /\ call.pc \in {"text", "return", "done"} =>
             \/ \E i \in tried : results[i].candidates # << >>
             \/ Cardinality(tried) = (IF Len(isbns) < 3 THEN Len(isbns) ELSE 3)

\* C22 witness: evidence with four ISBNs; the first search found nothing,
\* the second found a candidate, and the third ISBN was never searched
C22_Witness ==
  /\ call.fn = "search" /\ call.pc = "done"
  /\ Len(call.evidence.isbn) = 4
  /\ Len(call.results) = 2
  /\ call.results[1].tier = "isbn" /\ call.results[1].candidates = << >>
  /\ call.results[2].tier = "isbn" /\ call.results[2].candidates # << >>

C24_AvailabilityFailureKeepsCandidates ==
  [][ ( /\ call.fn = "search"
        /\ Len(call'.calls) > Len(call.calls)
        /\ call'.calls[Len(call'.calls)] = "get_item_availability" ) =>
        /\ Len(call'.results) = Len(call.results) + 1
        /\ call'.results[Len(call'.results)].candidates # << >>
        /\ has_candidates(call'.results) ]_vars


\* C25 (as amended): when enrich_from_openlibrary has returned, the
\* match_confidence follows the lookup path: none if a client call failed;
\* otherwise high if the direct ISBN lookup returned an edition; otherwise
\* medium (author guess given) or low (no author guess) if the keyword
\* search returned at least one result; otherwise none, which covers both
\* the absence of a title and a keyword search that found nothing.
C25_ConfidenceByLookupPath ==
  (call.fn = "enrich_from_openlibrary" /\ call.pc = "returned") =>
    LET e == call.enrichment
        directHit == call.strategy = 1 /\ e.edition
    IN  e.match_confidence =
          IF call.raisedBy # None THEN "none"
          ELSE IF directHit THEN "high"
          ELSE IF call.title /\ e.search_results
                 THEN (IF call.author THEN "medium" ELSE "low")
          ELSE "none"

\* C25 witness: a keyword search for a title and an author ran without
\* error, found nothing, and the confidence is none
C25_Witness ==
  /\ call.fn = "enrich_from_openlibrary" /\ call.pc = "returned"
  /\ call.title /\ call.author /\ call.raisedBy = None
  /\ call.calls # << >> /\ call.calls[Len(call.calls)] = "search"
  /\ ~call.enrichment.search_results
  /\ call.enrichment.match_confidence = "none"

\* C25 as stated: whenever a title guess exists and the keyword search is
\* performed without error the confidence is medium or low, and none occurs
\* only when no criteria are left to search by (no title guess once the
\* ISBN lookup found nothing) or after a failed call.
C25_AsStated ==
  (call.fn = "enrich_from_openlibrary" /\ call.pc = "returned") =>
    LET e == call.enrichment
        directHit == call.strategy = 1 /\ e.edition
        searched == \E i \in 1..Len(call.calls) : call.calls[i] = "search"
    IN  /\ (e.match_confidence = "high") <=>
             (directHit /\ call.raisedBy = None)
        /\ (~directHit /\ call.title /\ searched /\ call.raisedBy = None) =>
             e.match_confidence = IF call.author THEN "medium" ELSE "low"
        /\ (e.match_confidence = "none") =>
             \/ ~call.title
             \/ call.raisedBy # None


\* C26: with the default configuration (as BotConfig() builds it, where
\* allow_pii is missing, or with the allow_pii = false default that the
\* stage expects to read), an enrichment stage invocation that passes its
\* gate on a request whose evidence packet holds an ISBN performs the
\* direct identifier lookup, and the key it sends is the evidence's first
\* canonical ISBN itself, not a redacted value.
C26_IsbnLookupKeyIsEvidenceIsbn ==
  ( /\ [config EXCEPT !.allow_pii = "missing"] = DefaultConfig
    /\ config.allow_pii \in {"missing", "false"} ) =>
    \A w \in Workers :
      \A i \in DOMAIN proc[w].log :
        LET e == proc[w].log[i]
            evidence == e.seen.evidence_packet_json
        IN  ( /\ e.stage = "openlibrary_enrichment"
              /\ should_enrich(e.seen, config).go
              /\ evidence.present /\ evidence.isbn ) =>
              /\ e.q >= 1
              /\ config.allow_pii = "false" =>
                   ~Scrubbed(evidence).isbn_redacted


\* C27: whenever the catalog stage completes a search, the stored
\* catalog_holdings_json is the CandidateSets artifact, whatever the match
\* classification is (none included), and not the holdings summary or
\* NULL that save_catalog_result had written just before.
C27_CompletedSearchStoresArtifact ==
  [][ \A w \in Workers :
        LET n == Len(proc'[w].log)
        IN  ( /\ n = Len(proc[w].log) + 1
              /\ proc'[w].log[n].stage = "catalog_lookup"
              /\ proc'[w].log[n].result = "ok"
              /\ proc'[w].log[n].note = "searched" ) =>
              /\ db'[proc[w].rid].catalog_holdings_json = "candidate_sets"
              /\ db'[proc[w].rid].catalog_match \in
                   Matches(proc[w].row.evidence_packet_json)
              /\ db'[proc[w].rid].catalog_checked_ts = clock ]_vars

\* C27 witness: a completed search classified none, with the artifact stored
C27_Witness ==
  \E w \in Workers :
    LET p == proc[w]
    IN  /\ p.pc = "stage" /\ p.log # << >>
        /\ p.log[Len(p.log)].stage = "catalog_lookup"
        /\ p.log[Len(p.log)].result = "ok"
        /\ p.log[Len(p.log)].note = "searched"
        /\ db[p.rid].catalog_match = "none"
        /\ db[p.rid].catalog_holdings_json = "candidate_sets"


\* C28: once a request's evidence packet is stored, no step of the pipeline
\* changes evidence_packet_json: not a later stage of the same run, and not
\* a later run of the pipeline on the same request.
C28_EvidencePacketWrittenOnce ==
  [][ \A r \in DOMAIN db :
        db[r].evidence_packet_json.present =>
          db'[r].evidence_packet_json = db[r].evidence_packet_json ]_vars


\* C30: in every reachable state of a request, bot_error is non-null exactly
\* when bot_status = error, and bot_processed_ts is non-null whenever
\* bot_status is completed or error.
C30_ErrorFieldMatchesStatus ==
  \A r \in DOMAIN db :
    /\ (db[r].bot_error # None) <=> (db[r].bot_status = "error")
    /\ db[r].bot_status \in {"completed", "error"} =>
         db[r].bot_processed_ts # 0


\* C29: under repeated daemon cycles with fair scheduling, every request
\* that is ever pending eventually reaches bot_status completed or error,
\* also after a storage failure between mark_processing and the end of the
\* request's pipeline; none stays in processing forever.
C29_EveryPendingRequestIsSettled ==
  \A r \in Requests :
    (db[r].bot_status = "pending") ~>
      (db[r].bot_status \in {"completed", "error"})

====
